---- MODULE Spec2Model ----
(***************************************************************************)
(* Model of the streaming response decoders of ollama-ai-provider-v2:      *)
(*   - OllamaStreamProcessor (responses/ollama-responses-stream-processor) *)
(*     fed by ParseResult chunks, with the malformed-chunk line recovery   *)
(*     of extractOllamaResponseObjectsFromChunk;                           *)
(*   - the transform/flush closure of OllamaCompletionLanguageModel        *)
(*     .doStream (/generate);                                              *)
(*   - createJsonStreamResponseHandler and                                 *)
(*     createNdjsonStreamResponseHandler, the two line framers.            *)
(* Strings of wire text are sequences of one-character strings so that     *)
(* split, trim and parse are computed, not assumed.                        *)
(***************************************************************************)
EXTENDS Integers, Sequences, FiniteSets, TLC

\* ------------------------------------------------------------------ bounds
\* chunks delivered to one decoder before end of input
MaxChunks == 3
\* lines in the raw text of one chunk handed to line recovery
MaxLines == 2
\* chunks of one recovery stream
MaxRecChunks == 2

\* --------------------------------------------------------- absent values
\* undefined / absent string-valued field
None == "none"
\* a tool call's function.name that is null on the wire
NullName == "<null>"
\* undefined numeric field
NoCount == 0 - 1

\* ----------------------------------------------------------- wire values
NoArgs == [isNull |-> TRUE, keys |-> <<>>]
Args(ks) == [isNull |-> FALSE, keys |-> ks]

ToolCall(id, name, args) ==
    [id |-> id, function |-> [name |-> name, arguments |-> args]]

\* one decoded /chat response object (baseOllamaResponseSchema), or an
\* error-like object when error # None
Frag(content, thinking, done, tcs, reason, pe, ec) ==
    [error |-> None, model |-> "m", done |-> done, done_reason |-> reason,
     message |-> [content |-> content, thinking |-> thinking, tool_calls |-> tcs],
     prompt_eval_count |-> pe, eval_count |-> ec]

ErrorLike ==
    [error |-> "upstream", model |-> None, done |-> FALSE, done_reason |-> None,
     message |-> [content |-> "", thinking |-> None, tool_calls |-> <<>>],
     prompt_eval_count |-> NoCount, eval_count |-> NoCount]

\* ---------------------------------------------------------- stream parts
NoUsage == [inputTokens |-> NoCount, outputTokens |-> NoCount, totalTokens |-> NoCount]
NoReason == [raw |-> None, unified |-> None]

\* a LanguageModelStreamPart; fields a part does not have hold None
Ev(type, id, toolName, data) ==
    [type |-> type, id |-> id, toolName |-> toolName, data |-> data,
     finishReason |-> NoReason, usage |-> NoUsage]

FinishEv(reason, usage) ==
    [type |-> "finish", id |-> None, toolName |-> None, data |-> None,
     finishReason |-> reason, usage |-> usage]

\* a finish reason given in the code as a bare string literal
Lit(s) == [raw |-> None, unified |-> s]

mapOllamaFinishReason(finishReason) ==
    CASE finishReason = "stop" -> [raw |-> finishReason, unified |-> "stop"]
      [] finishReason = "length" -> [raw |-> finishReason, unified |-> "length"]
      [] finishReason = "content_filter" -> [raw |-> finishReason, unified |-> "content-filter"]
      [] finishReason \in {"function_call", "tool_calls"} -> [raw |-> finishReason, unified |-> "tool-calls"]
      [] OTHER -> [raw |-> finishReason, unified |-> "other"]

\* JSON.stringify of a tool call's arguments record
JSONStringify(args) ==
    IF Len(args.keys) = 0 THEN "{}" ELSE "{" \o args.keys[1] \o "}"

\* ------------------------------------------------ OllamaStreamProcessor
TextId == "txt"
ReasoningId == "0"

initializeState ==
    [finishReason |-> Lit("unknown"),
     usage |-> NoUsage,
     responseId |-> None,
     hasToolCalls |-> FALSE,
     isFirstChunk |-> TRUE,
     hasTextStarted |-> FALSE,
     hasReasoningStarted |-> FALSE,
     textEnded |-> FALSE,
     reasoningEnded |-> FALSE,
     textId |-> TextId]

\* the decoder while one transform call runs: its state, the parts enqueued
\* on the controller so far, the error thrown (None if none) and the number
\* of ids produced by the id generator
Ctx(st, out, thrown, gen) == [state |-> st, out |-> out, thrown |-> thrown, gen |-> gen]

Enqueue(ctx, ev) == [ctx EXCEPT !.out = Append(@, ev)]

GenId(n) == "gen" \o ToString(n)

\* emitToolCall drawing a second id for the closing tool-call part
emitToolCall_SecondId(ctx, toolCall) ==
    LET fresh == toolCall.id = None
        id == IF fresh THEN GenId(ctx.gen + 1) ELSE toolCall.id
        c0 == IF fresh THEN [ctx EXCEPT !.gen = @ + 2] ELSE ctx
        c1 == Enqueue(c0, Ev("tool-input-start", id, toolCall.function.name, None))
        c2 == Enqueue(c1, Ev("tool-input-delta", id, None, JSONStringify(toolCall.function.arguments)))
        c3 == Enqueue(c2, Ev("tool-input-end", id, None, None))
        c4 == Enqueue(c3, Ev("tool-call", IF fresh THEN GenId(ctx.gen + 2) ELSE id,
                             toolCall.function.name,
                             JSONStringify(toolCall.function.arguments)))
    IN  [c4 EXCEPT !.state.hasToolCalls = TRUE]

emitToolCall(ctx, toolCall) ==
    LET fresh == toolCall.id = None
        id == IF fresh THEN GenId(ctx.gen + 1) ELSE toolCall.id
        c0 == IF fresh THEN [ctx EXCEPT !.gen = @ + 1] ELSE ctx
        c1 == Enqueue(c0, Ev("tool-input-start", id, toolCall.function.name, None))
        c2 == Enqueue(c1, Ev("tool-input-delta", id, None, JSONStringify(toolCall.function.arguments)))
        c3 == Enqueue(c2, Ev("tool-input-end", id, None, None))
        c4 == Enqueue(c3, Ev("tool-call", id, toolCall.function.name,
                             JSONStringify(toolCall.function.arguments)))
    IN  [c4 EXCEPT !.state.hasToolCalls = TRUE]

RECURSIVE toolCallLoop_EmitThenCheck(_, _, _)
\* toolCallLoop testing the function name only after the call was emitted
toolCallLoop_EmitThenCheck(ctx, tcs, i) ==
    IF i > Len(tcs) THEN ctx
    ELSE LET c1 == IF ~tcs[i].function.arguments.isNull
                   THEN emitToolCall(ctx, tcs[i]) ELSE ctx
         IN  IF tcs[i].function.name = NullName
             THEN [c1 EXCEPT !.thrown = "InvalidResponseDataError"]
             ELSE toolCallLoop_EmitThenCheck(c1, tcs, i + 1)

RECURSIVE toolCallLoop(_, _, _)
toolCallLoop(ctx, tcs, i) ==
    IF i > Len(tcs) THEN ctx
    ELSE IF tcs[i].function.name = NullName
         THEN [ctx EXCEPT !.thrown = "InvalidResponseDataError"]
    ELSE IF tcs[i].function.name # NullName /\ ~tcs[i].function.arguments.isNull
         THEN toolCallLoop(emitToolCall(ctx, tcs[i]), tcs, i + 1)
    ELSE toolCallLoop(ctx, tcs, i + 1)

processToolCalls(ctx, delta) == toolCallLoop(ctx, delta.tool_calls, 1)

\* processTextContent dropping content that arrives after text-end
processTextContent_DropsAfterEnd(ctx, delta) ==
    IF delta.content # None /\ ~ctx.state.textEnded
    THEN LET c1 == IF ~ctx.state.hasTextStarted
                   THEN [Enqueue(ctx, Ev("text-start", ctx.state.textId, None, None))
                            EXCEPT !.state.hasTextStarted = TRUE]
                   ELSE ctx
         IN  Enqueue(c1, Ev("text-delta", c1.state.textId, None, delta.content))
    ELSE ctx

processTextContent(ctx, delta) ==
    IF delta.content # None
    THEN LET c1 == IF ~ctx.state.hasTextStarted
                   THEN [Enqueue(ctx, Ev("text-start", ctx.state.textId, None, None))
                            EXCEPT !.state.hasTextStarted = TRUE]
                   ELSE ctx
         IN  Enqueue(c1, Ev("text-delta", c1.state.textId, None, delta.content))
    ELSE ctx

processThinking(ctx, delta) ==
    IF delta.thinking # None /\ delta.thinking # ""
    THEN LET c1 == IF ~ctx.state.hasReasoningStarted
                   THEN [Enqueue(ctx, Ev("reasoning-start", ReasoningId, None, None))
                            EXCEPT !.state.hasReasoningStarted = TRUE]
                   ELSE ctx
         IN  Enqueue(c1, Ev("reasoning-delta", ReasoningId, None, delta.thinking))
    ELSE ctx

processDelta(ctx, delta) ==
    processToolCalls(processThinking(processTextContent(ctx, delta), delta), delta)

\* handleDoneChunk announcing the end of the stream itself
handleDoneChunk_EmitsFinish(ctx, value) ==
    LET c0 == [ctx EXCEPT !.state.finishReason = mapOllamaFinishReason(value.done_reason)]
        c1 == IF c0.state.hasTextStarted /\ ~c0.state.textEnded
              THEN [Enqueue(c0, Ev("text-end", c0.state.textId, None, None))
                       EXCEPT !.state.textEnded = TRUE]
              ELSE c0
        c2 == IF c1.state.hasReasoningStarted /\ ~c1.state.reasoningEnded
              THEN [Enqueue(c1, Ev("reasoning-end", ReasoningId, None, None))
                       EXCEPT !.state.reasoningEnded = TRUE]
              ELSE c1
    IN  Enqueue(c2, FinishEv(c2.state.finishReason, c2.state.usage))

\* handleDoneChunk closing the reasoning channel before the text channel
handleDoneChunk_ReasoningFirst(ctx, value) ==
    LET pe == value.prompt_eval_count
        ec == value.eval_count
        c0 == [ctx EXCEPT
                 !.state.finishReason = mapOllamaFinishReason(value.done_reason),
                 !.state.usage =
                     [inputTokens |-> IF pe = NoCount \/ pe = 0 THEN 0 ELSE pe,
                      outputTokens |-> ec,
                      totalTokens |-> (IF pe = NoCount THEN 0 ELSE pe)
                                      + (IF ec = NoCount THEN 0 ELSE ec)]]
        c1 == IF c0.state.hasReasoningStarted /\ ~c0.state.reasoningEnded
              THEN [Enqueue(c0, Ev("reasoning-end", ReasoningId, None, None))
                       EXCEPT !.state.reasoningEnded = TRUE]
              ELSE c0
    IN  IF c1.state.hasTextStarted /\ ~c1.state.textEnded
        THEN [Enqueue(c1, Ev("text-end", c1.state.textId, None, None))
                 EXCEPT !.state.textEnded = TRUE]
        ELSE c1

handleDoneChunk(ctx, value) ==
    LET pe == value.prompt_eval_count
        ec == value.eval_count
        c0 == [ctx EXCEPT
                 !.state.finishReason = mapOllamaFinishReason(value.done_reason),
                 !.state.usage =
                     [inputTokens |-> IF pe = NoCount \/ pe = 0 THEN 0 ELSE pe,
                      outputTokens |-> ec,
                      totalTokens |-> (IF pe = NoCount THEN 0 ELSE pe)
                                      + (IF ec = NoCount THEN 0 ELSE ec)]]
        c1 == IF c0.state.hasTextStarted /\ ~c0.state.textEnded
              THEN [Enqueue(c0, Ev("text-end", c0.state.textId, None, None))
                       EXCEPT !.state.textEnded = TRUE]
              ELSE c0
    IN  IF c1.state.hasReasoningStarted /\ ~c1.state.reasoningEnded
        THEN [Enqueue(c1, Ev("reasoning-end", ReasoningId, None, None))
                 EXCEPT !.state.reasoningEnded = TRUE]
        ELSE c1

\* processResponseValue never clearing isFirstChunk
processResponseValue_KeepsFirst(ctx, value) ==
    IF value.error # None
    THEN [Enqueue(ctx, Ev("error", None, None, value.error))
             EXCEPT !.state.finishReason = Lit("error")]
    ELSE LET c1 == IF ctx.state.isFirstChunk
                   THEN Enqueue(ctx, Ev("response-metadata", None, None, value.model))
                   ELSE ctx
             c2 == IF value.done THEN handleDoneChunk(c1, value) ELSE c1
         IN  processDelta(c2, value.message)

processResponseValue(ctx, value) ==
    IF value.error # None
    THEN [Enqueue(ctx, Ev("error", None, None, value.error))
             EXCEPT !.state.finishReason = Lit("error")]
    ELSE LET c1 == IF ctx.state.isFirstChunk
                   THEN [Enqueue(ctx, Ev("response-metadata", None, None, value.model))
                            EXCEPT !.state.isFirstChunk = FALSE]
                   ELSE ctx
             c2 == IF value.done THEN handleDoneChunk(c1, value) ELSE c1
         IN  processDelta(c2, value.message)

\* finalizeStream closing every started channel, ended or not
finalizeStream_IgnoresEnded(ctx) ==
    LET c1 == IF ctx.state.hasTextStarted
              THEN Enqueue(ctx, Ev("text-end", ctx.state.textId, None, None))
              ELSE ctx
        c2 == IF c1.state.hasReasoningStarted
              THEN Enqueue(c1, Ev("reasoning-end", ReasoningId, None, None))
              ELSE c1
    IN  Enqueue(c2, FinishEv(c2.state.finishReason, c2.state.usage))

finalizeStream(ctx) ==
    LET c1 == IF ctx.state.hasTextStarted /\ ~ctx.state.textEnded
              THEN Enqueue(ctx, Ev("text-end", ctx.state.textId, None, None))
              ELSE ctx
        c2 == IF c1.state.hasReasoningStarted /\ ~c1.state.reasoningEnded
              THEN Enqueue(c1, Ev("reasoning-end", ReasoningId, None, None))
              ELSE c1
    IN  Enqueue(c2, FinishEv(c2.state.finishReason, c2.state.usage))

\* ------------------------------------------------------------ wire text
NL == "\n"
CR == "\r"
SP == " "
Whitespace == {NL, CR, SP}

RECURSIVE IndexOfFrom(_, _, _)
\* first index >= i of character c in text, 0 if there is none
IndexOfFrom(text, c, i) ==
    IF i > Len(text) THEN 0
    ELSE IF text[i] = c THEN i
    ELSE IndexOfFrom(text, c, i + 1)

RECURSIVE Split(_, _)
\* String.prototype.split on "\n" (stripCR = FALSE) or on /\r?\n/ (TRUE)
Split(text, stripCR) ==
    LET k == IndexOfFrom(text, NL, 1)
    IN  IF k = 0 THEN <<text>>
        ELSE LET e == IF stripCR /\ k > 1 /\ text[k - 1] = CR THEN k - 2 ELSE k - 1
             IN  <<SubSeq(text, 1, e)>> \o Split(SubSeq(text, k + 1, Len(text)), stripCR)

RECURSIVE TrimStart(_)
TrimStart(text) ==
    IF Len(text) > 0 /\ text[1] \in Whitespace THEN TrimStart(Tail(text)) ELSE text

RECURSIVE TrimEnd(_)
TrimEnd(text) ==
    IF Len(text) > 0 /\ text[Len(text)] \in Whitespace
    THEN TrimEnd(SubSeq(text, 1, Len(text) - 1)) ELSE text

\* String.prototype.trim
Trim(text) == TrimEnd(TrimStart(text))

\* The wire objects of the model are written "{" body "}" where body is at
\* most one member: "a" (message.content = "a", done = false), "u" (the
\* same with a content of one two-byte character), "d" (the
\* final object: done = true, done_reason = "stop", counters 3 and 5) or
\* "e" (an {error: ...} envelope).  JSON.parse accepts exactly these, with
\* insignificant whitespace around and inside; anything else throws.
Members == {"a", "u", "d", "e"}

JSONParse(text) ==
    LET t == Trim(text)
        inner == IF Len(t) >= 2 THEN SubSeq(t, 2, Len(t) - 1) ELSE <<>>
        body == SelectSeq(inner, LAMBDA c : c \notin Whitespace)
    IN  [ok |-> /\ Len(t) >= 2
                /\ t[1] = "{"
                /\ t[Len(t)] = "}"
                /\ Len(body) <= 1
                /\ \A i \in 1..Len(body) : body[i] \in Members,
         body |-> body]

FragA == Frag("a", None, FALSE, <<>>, None, NoCount, NoCount)
FragU == Frag("u", None, FALSE, <<>>, None, NoCount, NoCount)
FragD == Frag("", None, TRUE, <<>>, "stop", 3, 5)

\* baseOllamaResponseSchema.safeParse of a parsed wire object
baseOllamaResponseSchema(body) ==
    IF body = <<"a">> THEN [success |-> TRUE, data |-> FragA]
    ELSE IF body = <<"u">> THEN [success |-> TRUE, data |-> FragU]
    ELSE IF body = <<"d">> THEN [success |-> TRUE, data |-> FragD]
    ELSE [success |-> FALSE, data |-> ErrorLike]

\* ParseResult values
NoError == [name |-> None, hasText |-> FALSE, text |-> <<>>]
Success(value) == [success |-> TRUE, value |-> value, error |-> NoError]
Failure(name, hasText, text) ==
    [success |-> FALSE, value |-> ErrorLike,
     error |-> [name |-> name, hasText |-> hasText, text |-> text]]

\* safeParseJSON({text, schema}) of @ai-sdk/provider-utils: a JSON syntax
\* error gives a JSONParseError that keeps the text, a schema mismatch a
\* TypeValidationError that keeps only the parsed value
safeParseJSON(text) ==
    LET p == JSONParse(text)
        v == baseOllamaResponseSchema(p.body)
    IN  IF ~p.ok THEN Failure("JSONParseError", TRUE, text)
        ELSE IF ~v.success THEN Failure("TypeValidationError", FALSE, <<>>)
        ELSE Success(v.data)

RECURSIVE recoverLines_StopAtMalformed(_, _)
\* recoverLines giving up at the first line that does not parse
recoverLines_StopAtMalformed(lines, i) ==
    IF i > Len(lines) THEN <<>>
    ELSE LET trimmed == Trim(lines[i])
             parsed == JSONParse(trimmed)
             validated == baseOllamaResponseSchema(parsed.body)
         IN  IF trimmed = <<>> THEN recoverLines_StopAtMalformed(lines, i + 1)
             ELSE IF parsed.ok /\ validated.success
                  THEN <<validated.data>> \o recoverLines_StopAtMalformed(lines, i + 1)
             ELSE IF parsed.ok THEN recoverLines_StopAtMalformed(lines, i + 1)
             ELSE <<>>

RECURSIVE recoverLines(_, _)
recoverLines(lines, i) ==
    IF i > Len(lines) THEN <<>>
    ELSE LET trimmed == Trim(lines[i])
             parsed == JSONParse(trimmed)
             validated == baseOllamaResponseSchema(parsed.body)
         IN  IF trimmed = <<>> THEN recoverLines(lines, i + 1)
             ELSE IF parsed.ok /\ validated.success
                  THEN <<validated.data>> \o recoverLines(lines, i + 1)
             ELSE recoverLines(lines, i + 1)

extractOllamaResponseObjectsFromChunk(chunk) ==
    IF chunk.success THEN <<chunk.value>>
    ELSE IF ~chunk.error.hasText \/ Len(chunk.error.text) = 0 THEN <<>>
    ELSE recoverLines(Split(chunk.error.text, TRUE), 1)

RECURSIVE valueLoop(_, _, _)
valueLoop(ctx, values, i) ==
    IF i > Len(values) \/ ctx.thrown # None THEN ctx
    ELSE valueLoop(processResponseValue(ctx, values[i]), values, i + 1)

processChunk(ctx, chunk, opts) ==
    LET c0 == IF opts.includeRawChunks
              THEN Enqueue(ctx, Ev("raw", None, None, None))
              ELSE ctx
        values == extractOllamaResponseObjectsFromChunk(chunk)
    IN  IF Len(values) = 0
        THEN IF ~chunk.success
             THEN [Enqueue(c0, Ev("error", None, None, chunk.error.name))
                      EXCEPT !.state.finishReason = Lit("error")]
             ELSE c0
        ELSE valueLoop(c0, values, 1)

RECURSIVE handlerLines(_, _)
handlerLines(lines, i) ==
    IF i > Len(lines) THEN <<>>
    ELSE IF Trim(lines[i]) # <<>>
         THEN <<safeParseJSON(Trim(lines[i]))>> \o handlerLines(lines, i + 1)
    ELSE handlerLines(lines, i + 1)

\* transform of createJsonStreamResponseHandler: the ParseResults enqueued
\* for one decoded text chunk
createJsonStreamResponseHandler(chunk) == handlerLines(Split(chunk, FALSE), 1)

\* ------------------------- OllamaCompletionLanguageModel.doStream closure
\* one decoded /generate response object, or an error-like object
\* one /generate response object with its optional counters
CValueWith(response, done, pe, ec) ==
    [error |-> None, model |-> "m", done |-> done, response |-> response,
     prompt_eval_count |-> pe, eval_count |-> ec]
CValue(response, done) == CValueWith(response, done, NoCount, NoCount)
CErrorLike ==
    [error |-> "upstream", model |-> None, done |-> FALSE, response |-> None,
     prompt_eval_count |-> NoCount, eval_count |-> NoCount]

completionInit ==
    [finishReason |-> "other",
     usage |-> NoUsage,
     isFirstChunk |-> TRUE,
     textStarted |-> FALSE,
     textId |-> TextId]

completionTransform(ctx, value) ==
    IF value.error # None
    THEN [Enqueue(ctx, Ev("error", None, None, value.error))
             EXCEPT !.state.finishReason = "error"]
    ELSE LET c1 == IF ctx.state.isFirstChunk
                   THEN [Enqueue(ctx, Ev("response-metadata", None, None, value.model))
                            EXCEPT !.state.isFirstChunk = FALSE]
                   ELSE ctx
             c2 == IF value.done THEN [c1 EXCEPT !.state.finishReason = "stop"] ELSE c1
         IN  IF value.response # None
             THEN LET c3 == IF ~c2.state.textStarted
                            THEN [Enqueue(c2, Ev("text-start", c2.state.textId, None, None))
                                     EXCEPT !.state.textStarted = TRUE]
                            ELSE c2
                  IN  Enqueue(c3, Ev("text-delta", c3.state.textId, None, value.response))
             ELSE c2

completionFlush(ctx) ==
    LET c1 == IF ctx.state.textStarted
              THEN Enqueue(ctx, Ev("text-end", ctx.state.textId, None, None))
              ELSE ctx
    IN  Enqueue(c1, FinishEv(mapOllamaFinishReason(c1.state.finishReason), c1.state.usage))

\* ------------------------------------- createNdjsonStreamResponseHandler
\* the /generate baseOllamaResponseSchema.parse of a parsed wire object
completionSchema(body) ==
    IF body = <<"a">> THEN [success |-> TRUE, data |-> CValue("a", FALSE)]
    ELSE IF body = <<"u">> THEN [success |-> TRUE, data |-> CValue("u", FALSE)]
    ELSE IF body = <<"d">> THEN [success |-> TRUE, data |-> CValue("", TRUE)]
    ELSE [success |-> FALSE, data |-> CErrorLike]

\* UTF-8 as far as the model needs it: every byte is a one-byte character
\* except the pair U1 U2, which encodes the character "u"
Lead == "U1"
Cont == "U2"
Replacement == "FFFD"

RECURSIVE decodeFrom(_, _, _, _)
decodeFrom(bytes, i, pending, chars) ==
    IF i > Len(bytes) THEN [chars |-> chars, pending |-> pending]
    ELSE LET b == bytes[i]
             bad == IF pending # <<>> THEN <<Replacement>> ELSE <<>>
         IN  IF b = Lead THEN decodeFrom(bytes, i + 1, <<Lead>>, chars \o bad)
             ELSE IF b = Cont
                  THEN IF pending = <<Lead>>
                       THEN decodeFrom(bytes, i + 1, <<>>, Append(chars, "u"))
                       ELSE decodeFrom(bytes, i + 1, <<>>, Append(chars, Replacement))
             ELSE decodeFrom(bytes, i + 1, <<>>, Append(chars \o bad, b))

\* TextDecoder.decode(value, {stream: true}): an incomplete character at
\* the end of value is kept for the next call
decode(pending, value) == decodeFrom(value, 1, pending, <<>>)

\* JSON.parse then schema.parse of one trimmed line, inside try/catch
ndjsonParseLine(trimmed) ==
    LET parsed == JSONParse(trimmed)
        validated == completionSchema(parsed.body)
    IN  IF parsed.ok /\ validated.success THEN <<validated.data>> ELSE <<>>

RECURSIVE ndjsonLines(_, _)
ndjsonLines(lines, i) ==
    IF i > Len(lines) THEN <<>>
    ELSE IF Trim(lines[i]) # <<>>
         THEN ndjsonParseLine(Trim(lines[i])) \o ndjsonLines(lines, i + 1)
    ELSE ndjsonLines(lines, i + 1)

NdInit == [pending |-> <<>>, buffer |-> <<>>, out |-> <<>>, closed |-> FALSE]

\* ndjsonRead keeping everything it has decoded in the buffer
ndjsonRead_KeepsAll(h, rd) ==
    IF rd.done
    THEN [h EXCEPT !.closed = TRUE]
    ELSE LET d == decode(h.pending, rd.value)
             buffer == h.buffer \o d.chars
             lines == Split(buffer, FALSE)
         IN  [h EXCEPT !.pending = d.pending,
                       !.buffer = buffer,
                       !.out = @ \o ndjsonLines(SubSeq(lines, 1, Len(lines) - 1), 1)]

\* ndjsonRead forgetting the residual tail instead of keeping it
ndjsonRead_DropsResidual(h, rd) ==
    IF rd.done
    THEN [h EXCEPT !.closed = TRUE]
    ELSE LET d == decode(h.pending, rd.value)
             lines == Split(d.chars, FALSE)
         IN  [h EXCEPT !.pending = d.pending,
                       !.buffer = <<>>,
                       !.out = @ \o ndjsonLines(lines, 1)]

\* one turn of the while loop of pull: the handler h after reader.read()
\* returned rd = {done, value}
ndjsonRead(h, rd) ==
    IF rd.done
    THEN [h EXCEPT !.out = IF Trim(h.buffer) # <<>>
                           THEN @ \o ndjsonParseLine(Trim(h.buffer)) ELSE @,
                   !.closed = TRUE]
    ELSE LET d == decode(h.pending, rd.value)
             buffer == h.buffer \o d.chars
             lines == Split(buffer, FALSE)
         IN  [h EXCEPT !.pending = d.pending,
                       !.buffer = lines[Len(lines)],
                       !.out = @ \o ndjsonLines(SubSeq(lines, 1, Len(lines) - 1), 1)]

RECURSIVE completionLoop(_, _, _)
completionLoop(ctx, values, i) ==
    IF i > Len(values) THEN ctx
    ELSE completionLoop(completionTransform(ctx, values[i]), values, i + 1)

\* the parts the completion decoder emits for a closed stream of values
completionEvents(values) ==
    completionFlush(completionLoop(Ctx(completionInit, <<>>, None, 0), values, 1)).out

\* ----------------------------------------------------------------- inputs
TcNamed == ToolCall(None, "f", Args(<<"x">>))
TcWithId == ToolCall("call_1", "g", Args(<<>>))
TcNullName == ToolCall(None, NullName, Args(<<"x">>))
TcNoArgs == ToolCall(None, "f", NoArgs)

Fragments ==
    {Frag(c, t, FALSE, <<>>, None, NoCount, NoCount) :
        <<c, t>> \in {<<"a", None>>, <<"", "t">>, <<"a", "t">>, <<"", "">>}}
    \cup {Frag(c, t, TRUE, <<>>, "stop", 3, 5) : <<c, t>> \in {<<"", None>>, <<"a", "t">>}}
    \cup {Frag("", None, TRUE, <<>>, None, NoCount, NoCount)}
    \cup {Frag("", None, FALSE, tcs, None, NoCount, NoCount) :
            tcs \in {<<TcNamed>>, <<TcWithId>>, <<TcNullName>>, <<TcNamed, TcNullName>>,
                     <<TcNoArgs, TcNamed>>}}

\* raw texts whose ParseResult is not a success
SampleTexts ==
    {<<"{", "a">>, <<"{", "e", "}">>,
     <<"{", "a", "}", NL, "{", "d", "}">>,
     <<"{", "a", NL, "{", "a", "}">>}

\* the ParseResults a decoder may be handed
Chunks ==
    {Success(f) : f \in Fragments} \cup {Success(ErrorLike)}
    \cup {safeParseJSON(t) : t \in SampleTexts}

CValues ==
    {CValue(r, d) : r \in {"", "a"}, d \in BOOLEAN}
    \cup {CValueWith("", TRUE, 3, 5), CErrorLike}

LineTokens == {<<"{", "a", "}">>, <<SP, "{", "d", "}", CR>>, <<"{", "a">>}

RECURSIVE JoinedTexts(_)
\* the texts of exactly n lines, each a line token, joined by newlines
JoinedTexts(n) ==
    IF n = 1 THEN LineTokens
    ELSE {t \o <<NL>> \o l : t \in JoinedTexts(n - 1), l \in LineTokens}

RecoveryTexts ==
    UNION {JoinedTexts(n) : n \in 1..MaxLines}
    \cup {<<"{", "e", "}">>, <<NL, "{", "e", "}", NL, "{", "a", "}">>}

RecoveryChunks == {safeParseJSON(t) : t \in RecoveryTexts}

\* decoded text chunks as the transport may deliver them to the line framer
WireTexts ==
    {<<"{", "a", "}", NL>>, <<"{", "a">>, <<"}", NL>>, <<"{", "d", "}", NL>>,
     <<"{", "e", "}", NL>>, <<"{", "a", "}", NL, "{", "d", "}", NL>>}

\* ------------------------------------------------------------------ state
VARIABLES
    endpoint,    \* "chat": OllamaResponsesLanguageModel, "generate": completion model
    options,     \* the call options read by the decoder
    state,       \* OllamaStreamProcessor.state
    cstate,      \* the closure variables of the completion doStream
    events,      \* the parts enqueued on the output controller, in order
    thrown,      \* error thrown by transform (the stream is errored), or None
    gen,         \* ids handed out by config.generateId so far
    closed,      \* flush has run
    processed,   \* ParseResults handed to OllamaStreamProcessor so far
    cprocessed,  \* values handed to the completion transform so far
    wire,        \* the response body of the NDJSON runs and where it is cut
    nd,          \* per run: the chunks still to be read and the handler state
    procs,       \* the OllamaStreamProcessor instances of concurrent calls
    streams,     \* per doStream call: its transform stream and what it was fed
    fnCall,      \* the call of a function of the provider that is being made
    result       \* what that call returned, once it has

decoderVars == <<endpoint, options, state, cstate, events, thrown, gen, closed, processed, cprocessed>>
ndVars == <<wire, nd>>
callVars == <<procs, streams>>
fnVars == <<fnCall, result>>
\* what the single-call decoder actions leave alone
besideDecoder == <<ndVars, callVars, fnVars>>
vars == <<decoderVars, ndVars, callVars, fnVars>>

Here == Ctx(state, events, thrown, gen)
CHere == Ctx(cstate, events, thrown, gen)

Open == ~closed /\ thrown = None

Runs == {"whole", "split"}

NdIdle ==
    /\ wire = [body |-> <<>>, cut |-> 0]
    /\ nd = [r \in Runs |-> [chunks |-> <<>>, h |-> NdInit]]

InitDecoder ==
    /\ options \in [includeRawChunks : BOOLEAN]
    /\ state = initializeState
    /\ cstate = completionInit
    /\ events = IF endpoint = "chat" THEN <<Ev("stream-start", None, None, None)>> ELSE <<>>
    /\ thrown = None
    /\ gen = 0
    /\ closed = FALSE
    /\ processed = <<>>
    /\ cprocessed = <<>>

CallsIdle ==
    /\ procs = <<>>
    /\ streams = <<>>

\* no function call being made
FnIdle ==
    /\ fnCall = [fn |-> None]
    /\ result = [returned |-> FALSE]

Init ==
    /\ endpoint \in {"chat", "generate"}
    /\ InitDecoder
    /\ NdIdle
    /\ CallsIdle
    /\ FnIdle

InitRecovery ==
    /\ endpoint = "chat"
    /\ InitDecoder
    /\ NdIdle
    /\ CallsIdle
    /\ FnIdle

\* TransformStream.transform of OllamaStreamProcessor on one ParseResult
TransformWith(chunk) ==
    LET c == processChunk(Here, chunk, options)
    IN  /\ state' = c.state
        /\ events' = c.out
        /\ thrown' = c.thrown
        /\ gen' = c.gen
        /\ processed' = Append(processed, chunk)
        /\ UNCHANGED <<endpoint, options, cstate, closed, cprocessed, besideDecoder>>

Transform ==
    /\ endpoint = "chat" /\ Open /\ Len(processed) < MaxChunks
    /\ \E chunk \in Chunks : TransformWith(chunk)

TransformRecovered ==
    /\ endpoint = "chat" /\ Open /\ Len(processed) < MaxRecChunks
    /\ \E chunk \in RecoveryChunks : TransformWith(chunk)

RECURSIVE pipeLoop(_, _, _)
\* the decoder's transform run on each ParseResult of the framer, in order
pipeLoop(ctx, results, i) ==
    IF i > Len(results) \/ ctx.thrown # None THEN ctx
    ELSE pipeLoop(processChunk(ctx, results[i], options), results, i + 1)

\* one decoded text chunk through createJsonStreamResponseHandler and on
\* into the decoder
DeliverText ==
    /\ endpoint = "chat" /\ Open /\ Len(processed) < MaxRecChunks
    /\ \E text \in WireTexts :
        LET results == createJsonStreamResponseHandler(text)
            c == pipeLoop(Here, results, 1)
        IN  /\ state' = c.state
            /\ events' = c.out
            /\ thrown' = c.thrown
            /\ gen' = c.gen
            /\ processed' = processed \o results
            /\ UNCHANGED <<endpoint, options, cstate, closed, cprocessed, besideDecoder>>

\* TransformStream.flush of OllamaStreamProcessor: end of input
Flush ==
    /\ endpoint = "chat" /\ Open
    /\ events' = finalizeStream(Here).out
    /\ closed' = TRUE
    /\ UNCHANGED <<endpoint, options, state, cstate, thrown, gen, processed, cprocessed, besideDecoder>>

CompletionTransform ==
    /\ endpoint = "generate" /\ Open /\ Len(cprocessed) < MaxChunks
    /\ \E value \in CValues :
        LET c == completionTransform(CHere, value)
        IN  /\ cstate' = c.state
            /\ events' = c.out
            /\ cprocessed' = Append(cprocessed, value)
            /\ UNCHANGED <<endpoint, options, state, thrown, gen, closed, processed, besideDecoder>>

CompletionFlush ==
    /\ endpoint = "generate" /\ Open
    /\ events' = completionFlush(CHere).out
    /\ closed' = TRUE
    /\ UNCHANGED <<endpoint, options, state, cstate, thrown, gen, processed, cprocessed, besideDecoder>>

Next == Transform \/ Flush \/ CompletionTransform \/ CompletionFlush

Spec == Init /\ [][Next]_vars

NextRecovery == TransformRecovered \/ DeliverText \/ Flush

SpecRecovery == InitRecovery /\ [][NextRecovery]_vars

\* ------------------------------------------------ the NDJSON line framer
ByteTokens ==
    {<<"{", "a", "}">>, <<"{", Lead, Cont, "}">>, <<"{", "d", "}", CR>>, <<"{", "a">>}

RECURSIVE JoinedBytes(_)
JoinedBytes(n) ==
    IF n = 1 THEN ByteTokens
    ELSE {t \o <<NL>> \o l : t \in JoinedBytes(n - 1), l \in ByteTokens}

\* response bodies: lines joined by newlines, with or without a final one
NdBodies ==
    LET joined == UNION {JoinedBytes(n) : n \in 1..MaxLines}
    IN  joined \cup {b \o <<NL>> : b \in joined}

InitNdjson ==
    /\ endpoint = "generate"
    /\ options = [includeRawChunks |-> FALSE]
    /\ state = initializeState
    /\ cstate = completionInit
    /\ events = <<>>
    /\ thrown = None
    /\ gen = 0
    /\ closed = FALSE
    /\ processed = <<>>
    /\ cprocessed = <<>>
    /\ CallsIdle
    /\ FnIdle
    /\ \E b \in NdBodies : \E k \in 1..(Len(b) - 1) : wire = [body |-> b, cut |-> k]
    /\ nd = [r \in Runs |->
               [chunks |-> IF r = "whole" THEN <<wire.body>>
                           ELSE <<SubSeq(wire.body, 1, wire.cut),
                                  SubSeq(wire.body, wire.cut + 1, Len(wire.body))>>,
                h |-> NdInit]]

\* reader.read() and one turn of the loop of pull, for one of the two runs
\* one turn of while (true) in pull: the loop has no return but the one at
\* the end of the body, so every turn of a run belongs to its first pull; no
\* consumer takes a fragment, h.out is the queue of the stream
NdRead ==
    \E r \in Runs :
        /\ ~nd[r].h.closed
        /\ LET rd == IF nd[r].chunks = <<>>
                     THEN [done |-> TRUE, value |-> <<>>]
                     ELSE [done |-> FALSE, value |-> Head(nd[r].chunks)]
           IN  nd' = [nd EXCEPT ![r].h = ndjsonRead(@, rd),
                                ![r].chunks = IF rd.done THEN @ ELSE Tail(@)]
        /\ UNCHANGED <<wire, decoderVars, callVars, fnVars>>

NextNdjson == NdRead

SpecNdjson == InitNdjson /\ [][NextNdjson]_vars

\* ------------------------------------------------ concurrent doStream calls
MaxCallChunks == 2

Calls == {1, 2}

\* the ParseResults fed to the calls
CallChunks ==
    {Success(Frag("a", "t", FALSE, <<>>, None, NoCount, NoCount)),
     Success(Frag("", None, FALSE, <<TcNamed>>, None, NoCount, NoCount)),
     Success(Frag("", None, TRUE, <<>>, "stop", 3, 5)),
     Success(ErrorLike)}

\* a doStream call that has not been made yet
NotCalled ==
    [called |-> FALSE, out |-> <<>>, thrown |-> None, closed |-> FALSE,
     processed |-> <<>>, gens |-> <<>>]

\* one decoder instance kept by the model and used by every call
streamProcessor_Shared(call) == 1

\* the decoder instance a doStream call pipes its response through: a new
\* one per call
streamProcessor(call) == call

InitCalls ==
    /\ endpoint = "chat"
    /\ InitDecoder
    /\ NdIdle
    /\ FnIdle
    /\ procs = [k \in Calls |-> initializeState]
    /\ streams = [c \in Calls |-> NotCalled]

\* doStream: construct the decoder and start the transform stream
DoStream(call) ==
    /\ ~streams[call].called
    /\ procs' = [procs EXCEPT ![streamProcessor(call)] = initializeState]
    /\ streams' = [streams EXCEPT ![call] =
                      [@ EXCEPT !.called = TRUE,
                                !.out = <<Ev("stream-start", None, None, None)>>]]
    /\ UNCHANGED <<decoderVars, ndVars, fnVars>>

\* the decoder of a call as its transform or flush starts; gen is the id
\* generator of the config, which the calls of one model share
CallHere(call) ==
    Ctx(procs[streamProcessor(call)], streams[call].out, streams[call].thrown, gen)

CallOpen(call) ==
    /\ streams[call].called
    /\ ~streams[call].closed
    /\ streams[call].thrown = None

\* transform of one call's stream on one ParseResult
CallTransform(call) ==
    /\ CallOpen(call) /\ Len(streams[call].processed) < MaxCallChunks
    /\ \E chunk \in CallChunks :
        LET c == processChunk(CallHere(call), chunk, options)
        IN  /\ procs' = [procs EXCEPT ![streamProcessor(call)] = c.state]
            /\ streams' = [streams EXCEPT ![call] =
                              [@ EXCEPT !.out = c.out,
                                        !.thrown = c.thrown,
                                        !.processed = Append(@, chunk),
                                        !.gens = Append(@, gen)]]
            /\ gen' = c.gen
            /\ UNCHANGED <<endpoint, options, state, cstate, events, thrown, closed,
                           processed, cprocessed, ndVars, fnVars>>

\* flush of one call's stream
CallFlush(call) ==
    /\ CallOpen(call)
    /\ streams' = [streams EXCEPT ![call] =
                      [@ EXCEPT !.out = finalizeStream(CallHere(call)).out,
                                !.closed = TRUE]]
    /\ UNCHANGED <<decoderVars, ndVars, procs, fnVars>>

NextCalls == \E call \in Calls : DoStream(call) \/ CallTransform(call) \/ CallFlush(call)

SpecCalls == InitCalls /\ [][NextCalls]_vars

\* ------------------------------------------------ non-streaming responses
MaxTokens == 5

\* a content part of a doGenerate result
ContentPart(type, text, id, name, input) ==
    [type |-> type, text |-> text, toolCallId |-> id, toolName |-> name, input |-> input]

\* generateId of @ai-sdk/provider-utils, called where config.generateId is not
LibId(n) == "lib" \o ToString(n)

\* the tool-call parts of a response; absent ids come from the id generator
toolCallParts(tcs, generator) ==
    [i \in 1..Len(tcs) |->
        ContentPart("tool-call", None,
                    IF tcs[i].id # None THEN tcs[i].id
                    ELSE LET n == Cardinality({j \in 1..i : tcs[j].id = None})
                         IN  IF generator = "config" THEN GenId(n) ELSE LibId(n),
                    tcs[i].function.name, JSONStringify(tcs[i].function.arguments))]

\* OllamaResponseProcessor.extractContent; config.generateId is optional and
\* the library generator stands in for it
extractContent(response, config) ==
    (IF response.message.content # ""
     THEN <<ContentPart("text", response.message.content, None, None, None)>> ELSE <<>>)
    \o (IF response.message.thinking \notin {None, ""}
        THEN <<ContentPart("reasoning", response.message.thinking, None, None, None)>>
        ELSE <<>>)
    \o toolCallParts(response.message.tool_calls,
                     IF config.generateId THEN "config" ELSE "library")

\* OllamaResponseProcessor.extractUsage
extractUsage(response) ==
    [inputTokens |-> response.prompt_eval_count,
     outputTokens |-> response.eval_count,
     totalTokens |-> (IF response.prompt_eval_count = NoCount THEN 0
                      ELSE response.prompt_eval_count)
                     + (IF response.eval_count = NoCount THEN 0 ELSE response.eval_count)]

Returned(content, finishReason, usage) ==
    [returned |-> TRUE, content |-> content, finishReason |-> finishReason, usage |-> usage]

\* OllamaResponseProcessor.processGenerateResponse
processGenerateResponse(response, config) ==
    Returned(extractContent(response, config), mapOllamaFinishReason(response.done_reason),
             extractUsage(response))

\* doGenerate of the responses model that builds its result inline; a missing
\* tool-call id comes from the library generator, config.generateId is not read
doGenerate(response, config) ==
    Returned((IF response.message.content # ""
              THEN <<ContentPart("text", response.message.content, None, None, None)>>
              ELSE <<>>)
             \o toolCallParts(response.message.tool_calls, "library"),
             mapOllamaFinishReason(response.done_reason),
             [inputTokens |-> response.prompt_eval_count,
              outputTokens |-> response.eval_count,
              totalTokens |-> response.eval_count])

\* the same response arriving as the only fragment of a stream: the parts
\* of the stream, with the finish part's reason and usage
doStreamOf(response) ==
    LET c == processChunk(Ctx(initializeState, <<Ev("stream-start", None, None, None)>>, None, 0),
                          Success(response), [includeRawChunks |-> FALSE])
        out == finalizeStream(c).out
    IN  Returned(out, out[Len(out)].finishReason, out[Len(out)].usage)

\* final response objects of /chat
Responses ==
    {Frag(c, t, TRUE, tcs, r, pe, ec) :
        c \in {"", "a"}, t \in {None, "t"},
        tcs \in {<<>>, <<TcNamed>>, <<TcWithId, TcNamed>>},
        r \in {None, "stop"},
        pe \in {NoCount} \cup 0..MaxTokens, ec \in {NoCount} \cup 0..MaxTokens}

InitGenerate ==
    /\ endpoint = "chat"
    /\ InitDecoder
    /\ NdIdle
    /\ CallsIdle
    /\ result = [returned |-> FALSE]
    /\ \E fn \in {"processGenerateResponse", "doGenerate", "doStream"} :
       \E response \in Responses :
       \E generateId \in (IF fn = "doStream" THEN {TRUE} ELSE BOOLEAN) :
          fnCall = [fn |-> fn, response |-> response,
                    config |-> [generateId |-> generateId]]

ProcessGenerateResponse ==
    /\ fnCall.fn = "processGenerateResponse" /\ ~result.returned
    /\ result' = processGenerateResponse(fnCall.response, fnCall.config)
    /\ UNCHANGED <<decoderVars, ndVars, callVars, fnCall>>

DoGenerate ==
    /\ fnCall.fn = "doGenerate" /\ ~result.returned
    /\ result' = doGenerate(fnCall.response, fnCall.config)
    /\ UNCHANGED <<decoderVars, ndVars, callVars, fnCall>>

DoStreamOf ==
    /\ fnCall.fn = "doStream" /\ ~result.returned
    /\ result' = doStreamOf(fnCall.response)
    /\ UNCHANGED <<decoderVars, ndVars, callVars, fnCall>>

NextGenerate == ProcessGenerateResponse \/ DoGenerate \/ DoStreamOf

SpecGenerate == InitGenerate /\ [][NextGenerate]_vars

\* ------------------------------------------------ convertToOllamaChatMessages
MaxTurns == 2

\* a content part of a prompt turn; output is a tool result's output
NoOutput == [type |-> None, value |-> None]
Part(type, text, media, id, output) ==
    [type |-> type, text |-> text, media |-> media, id |-> id, output |-> output]
TextPart(text) == Part("text", text, None, None, NoOutput)
\* media is what precedes the "/" of the media type
FilePart(media) == Part("file", None, media, None, NoOutput)
ToolResultPart(id, type, value) ==
    Part("tool-result", None, None, id, [type |-> type, value |-> value])

SystemTurn(text) == [role |-> "system", text |-> text, content |-> <<>>]
Turn(role, content) == [role |-> role, text |-> None, content |-> content]

\* the content of a wire message: a plain string or an array
Str(text) == [form |-> "string", text |-> text, parts |-> <<>>]
Arr(parts) == [form |-> "array", text |-> None, parts |-> parts]

\* a wire message; turn is the index of the prompt turn it was pushed for
\* (bookkeeping of the model, not on the wire)
Msg(turn, role, content, images, thinking, tool_calls, tool_call_id) ==
    [turn |-> turn, role |-> role, content |-> content, images |-> images,
     thinking |-> thinking, tool_calls |-> tool_calls, tool_call_id |-> tool_call_id]

\* JSON.stringify of a string value
Quote(value) == "\"" \o value \o "\""

RECURSIVE Join(_)
\* Array.join('') of strings
Join(texts) == IF texts = <<>> THEN "" ELSE Head(texts) \o Join(Tail(texts))

TextsOf(content, type) ==
    LET ps == SelectSeq(content, LAMBDA part : part.type = type)
    IN  Join([k \in 1..Len(ps) |-> ps[k].text])

\* case 'system'
systemMessages(i, turn, systemMessageMode) ==
    CASE systemMessageMode = "system" -> <<Msg(i, "system", Str(turn.text), <<>>, None, <<>>, None)>>
      [] systemMessageMode = "developer" -> <<Msg(i, "developer", Str(turn.text), <<>>, None, <<>>, None)>>
      [] systemMessageMode = "remove" -> <<>>

\* case 'user' without the single-text-part shortcut
userMessage_NoShortcut(i, turn) ==
    LET userText == TextsOf(turn.content, "text")
        images == SelectSeq(turn.content, LAMBDA part : part.type = "file" /\ part.media = "image")
    IN  Msg(i, "user", IF userText # "" THEN Str(userText) ELSE Arr(<<>>),
            [k \in 1..Len(images) |-> "data"], None, <<>>, None)

\* case 'user'
userMessage(i, turn) ==
    IF Len(turn.content) = 1 /\ turn.content[1].type = "text"
    THEN Msg(i, "user", Str(turn.content[1].text), <<>>, None, <<>>, None)
    ELSE LET userText == TextsOf(turn.content, "text")
             images == SelectSeq(turn.content,
                                 LAMBDA part : part.type = "file" /\ part.media = "image")
         IN  Msg(i, "user", IF userText # "" THEN Str(userText) ELSE Arr(<<>>),
                 [k \in 1..Len(images) |-> "data"], None, <<>>, None)

\* case 'assistant': the parts the loop over content accepts
AssistantPartTypes == {"text", "tool-call", "reasoning"}

assistantMessage(i, turn) ==
    LET calls == SelectSeq(turn.content, LAMBDA part : part.type = "tool-call")
        thinking == TextsOf(turn.content, "reasoning")
    IN  Msg(i, "assistant", Str(TextsOf(turn.content, "text")), <<>>,
            IF thinking # "" THEN thinking ELSE None,
            [k \in 1..Len(calls) |-> calls[k].id], None)

\* case 'tool': one wire message per tool result
toolMessages(i, turn) ==
    [k \in 1..Len(turn.content) |->
        LET output == turn.content[k].output
        IN  Msg(i, "tool",
                Str(IF output.type \in {"text", "error-text"} THEN output.value
                    ELSE Quote(output.value)),
                <<>>, None, <<>>, turn.content[k].id)]

Converted(messages, error) == [messages |-> messages, thrown |-> error]

RECURSIVE convertLoop_SystemFirst(_, _, _, _)
\* the loop putting system messages at the head of the array
convertLoop_SystemFirst(prompt, systemMessageMode, i, messages) ==
    IF i > Len(prompt) THEN Converted(messages, None)
    ELSE LET turn == prompt[i]
         IN  CASE turn.role = "system" ->
                    convertLoop_SystemFirst(prompt, systemMessageMode, i + 1,
                        systemMessages(i, turn, systemMessageMode) \o messages)
               [] turn.role = "user" ->
                    convertLoop_SystemFirst(prompt, systemMessageMode, i + 1,
                        Append(messages, userMessage(i, turn)))
               [] turn.role = "assistant" ->
                    IF \E k \in 1..Len(turn.content) : turn.content[k].type \notin AssistantPartTypes
                    THEN Converted(messages, "Unsupported part")
                    ELSE convertLoop_SystemFirst(prompt, systemMessageMode, i + 1,
                             Append(messages, assistantMessage(i, turn)))
               [] turn.role = "tool" ->
                    convertLoop_SystemFirst(prompt, systemMessageMode, i + 1,
                        messages \o toolMessages(i, turn))

RECURSIVE convertLoop(_, _, _, _)
\* for (const { role, content } of prompt) switch (role)
convertLoop(prompt, systemMessageMode, i, messages) ==
    IF i > Len(prompt) THEN Converted(messages, None)
    ELSE LET turn == prompt[i]
         IN  CASE turn.role = "system" ->
                    convertLoop(prompt, systemMessageMode, i + 1,
                                messages \o systemMessages(i, turn, systemMessageMode))
               [] turn.role = "user" ->
                    convertLoop(prompt, systemMessageMode, i + 1,
                                Append(messages, userMessage(i, turn)))
               [] turn.role = "assistant" ->
                    IF \E k \in 1..Len(turn.content) : turn.content[k].type \notin AssistantPartTypes
                    THEN Converted(messages, "Unsupported part")
                    ELSE convertLoop(prompt, systemMessageMode, i + 1,
                                     Append(messages, assistantMessage(i, turn)))
               [] turn.role = "tool" ->
                    convertLoop(prompt, systemMessageMode, i + 1,
                                messages \o toolMessages(i, turn))

convertToOllamaChatMessages(prompt, systemMessageMode) ==
    convertLoop(prompt, systemMessageMode, 1, <<>>)

\* ---- the converter over LanguageModelV1Prompt (image parts, mimeType)
\* a file part the user case maps: media "audio" stands for 'audio/wav'
userPartSupportedV1(part) ==
    part.type \in {"text", "image"} \/ (part.type = "file" /\ part.media = "audio")

userPartV1(part) ==
    CASE part.type = "text" -> [type |-> "text", text |-> part.text]
      [] part.type = "image" -> [type |-> "image_url", text |-> None]
      [] part.type = "file" -> [type |-> "input_audio", text |-> None]

userMessageV1(i, turn) ==
    IF Len(turn.content) = 1 /\ turn.content[1].type = "text"
    THEN Msg(i, "user", Str(turn.content[1].text), <<>>, None, <<>>, None)
    ELSE Msg(i, "user", Arr([k \in 1..Len(turn.content) |-> userPartV1(turn.content[k])]),
             <<>>, None, <<>>, None)

toolMessagesV1(i, turn) ==
    [k \in 1..Len(turn.content) |->
        Msg(i, "tool", Str(Quote(turn.content[k].output.value)), <<>>, None, <<>>,
            turn.content[k].id)]

RECURSIVE convertLoopV1(_, _, _, _)
convertLoopV1(prompt, systemMessageMode, i, messages) ==
    IF i > Len(prompt) THEN Converted(messages, None)
    ELSE LET turn == prompt[i]
         IN  CASE turn.role = "system" ->
                    convertLoopV1(prompt, systemMessageMode, i + 1,
                                  messages \o systemMessages(i, turn, systemMessageMode))
               [] turn.role = "user" ->
                    IF /\ ~(Len(turn.content) = 1 /\ turn.content[1].type = "text")
                       /\ \E k \in 1..Len(turn.content) : ~userPartSupportedV1(turn.content[k])
                    THEN Converted(messages, "UnsupportedFunctionalityError")
                    ELSE convertLoopV1(prompt, systemMessageMode, i + 1,
                                       Append(messages, userMessageV1(i, turn)))
               [] turn.role = "assistant" ->
                    IF \E k \in 1..Len(turn.content) : turn.content[k].type \notin AssistantPartTypes
                    THEN Converted(messages, "Unsupported part")
                    ELSE convertLoopV1(prompt, systemMessageMode, i + 1,
                                       Append(messages, assistantMessage(i, turn)))
               [] turn.role = "tool" ->
                    convertLoopV1(prompt, systemMessageMode, i + 1,
                                  messages \o toolMessagesV1(i, turn))

convertToOllamaChatMessagesV1(prompt, systemMessageMode) ==
    convertLoopV1(prompt, systemMessageMode, 1, <<>>)

\* ---- inputs and the calls of the two converters
TurnsBoth ==
    {SystemTurn("s"),
     Turn("user", <<TextPart("")>>), Turn("user", <<TextPart("a")>>),
     Turn("user", <<TextPart("a"), TextPart("b")>>),
     Turn("user", <<FilePart("image")>>),
     Turn("user", <<TextPart("a"), FilePart("zip")>>),
     Turn("assistant", <<TextPart("a"), Part("reasoning", "t", None, None, NoOutput),
                         Part("tool-call", None, None, "c1", NoOutput)>>),
     Turn("assistant", <<FilePart("image")>>),
     Turn("tool", <<ToolResultPart("c1", "text", "r")>>),
     Turn("tool", <<ToolResultPart("c1", "json", "r"), ToolResultPart("c2", "error-text", "q")>>),
     Turn("tool", <<>>)}

RECURSIVE Prompts(_, _)
\* the prompts of exactly n turns
Prompts(turns, n) ==
    IF n = 0 THEN {<<>>} ELSE {Append(p, t) : p \in Prompts(turns, n - 1), t \in turns}

InitMessages ==
    /\ endpoint = "chat"
    /\ InitDecoder
    /\ NdIdle
    /\ CallsIdle
    /\ result = [returned |-> FALSE]
    /\ \E mode \in {"system", "developer", "remove"} :
       \E fn \in {"convertToOllamaChatMessages", "convertToOllamaChatMessagesV1"} :
       \E n \in 0..MaxTurns :
       \E prompt \in Prompts(IF fn = "convertToOllamaChatMessages" THEN TurnsBoth
                             ELSE TurnsBoth
                                  \cup {Turn("user", <<TextPart("a"),
                                           Part("image", None, None, None, NoOutput)>>)},
                             n) :
          fnCall = [fn |-> fn, prompt |-> prompt, systemMessageMode |-> mode]

ConvertMessages ==
    /\ fnCall.fn = "convertToOllamaChatMessages" /\ ~result.returned
    /\ result' = [returned |-> TRUE]
                 @@ convertToOllamaChatMessages(fnCall.prompt, fnCall.systemMessageMode)
    /\ UNCHANGED <<decoderVars, ndVars, callVars, fnCall>>

ConvertMessagesV1 ==
    /\ fnCall.fn = "convertToOllamaChatMessagesV1" /\ ~result.returned
    /\ result' = [returned |-> TRUE]
                 @@ convertToOllamaChatMessagesV1(fnCall.prompt, fnCall.systemMessageMode)
    /\ UNCHANGED <<decoderVars, ndVars, callVars, fnCall>>

NextMessages == ConvertMessages \/ ConvertMessagesV1

SpecMessages == InitMessages /\ [][NextMessages]_vars

\* ------------------------------------------------ request building
\* a model id is the sequence of its segments, each "-" closing a segment
isReasoningModel(modelId) ==
    modelId = <<"o1">> \/ modelId[1] = "o1-" \/ modelId = <<"o3">> \/ modelId[1] = "o3-"

getSystemMessageMode(modelId) ==
    IF ~isReasoningModel(modelId) THEN "system"
    ELSE IF modelId \in {<<"o1-", "mini">>, <<"o1-", "preview">>} THEN "remove"
    ELSE "developer"

Warning(type, setting) == [type |-> type, setting |-> setting]

\* the fields the reasoning-model override clears, in the order of its ifs,
\* with the warning each one pushes
ReasoningOverrides ==
    <<[field |-> "temperature", warning |-> Warning("unsupported-setting", "temperature")],
      [field |-> "top_p", warning |-> Warning("unsupported-setting", "topP")],
      [field |-> "frequency_penalty", warning |-> Warning("unsupported-setting", "frequencyPenalty")],
      [field |-> "presence_penalty", warning |-> Warning("unsupported-setting", "presencePenalty")],
      [field |-> "logit_bias", warning |-> Warning("other", "logitBias")],
      [field |-> "logprobs", warning |-> Warning("other", "logprobs")],
      [field |-> "top_logprobs", warning |-> Warning("other", "topLogprobs")]>>

\* the override clearing the fields without a warning for top_logprobs
overrideReasoning_SilentTopLogprobs(baseArgs) ==
    LET set == SelectSeq(ReasoningOverrides,
                         LAMBDA o : baseArgs[o.field] # NoCount /\ o.field # "top_logprobs")
        fields == {ReasoningOverrides[k].field : k \in 1..Len(ReasoningOverrides)}
    IN  [args |-> [f \in DOMAIN baseArgs |->
                     IF f \in fields \cup {"max_tokens"} THEN NoCount
                     ELSE IF f = "max_completion_tokens" /\ baseArgs[f] = NoCount
                          THEN baseArgs.max_tokens
                     ELSE baseArgs[f]],
         warnings |-> [k \in 1..Len(set) |-> set[k].warning]]

\* if (isReasoningModel(this.modelId)) { ... }: absent numbers are NoCount
overrideReasoning(baseArgs) ==
    LET set == SelectSeq(ReasoningOverrides, LAMBDA o : baseArgs[o.field] # NoCount)
        fields == {ReasoningOverrides[k].field : k \in 1..Len(ReasoningOverrides)}
    IN  [args |-> [f \in DOMAIN baseArgs |->
                     IF f \in fields \cup {"max_tokens"} THEN NoCount
                     ELSE IF f = "max_completion_tokens" /\ baseArgs[f] = NoCount
                          THEN baseArgs.max_tokens
                     ELSE baseArgs[f]],
         warnings |-> [k \in 1..Len(set) |-> set[k].warning]]

\* OllamaChatLanguageModel.getArgs of a regular call without tools; c holds
\* the model id, the settings and the call options; settings.logprobs is
\* [type, value] with type "undefined", "boolean" (value 1 for true) or "number"
getArgs(c) ==
    LET mode == getSystemMessageMode(c.modelId)
        early == (IF c.topK # NoCount THEN <<Warning("unsupported-setting", "topK")>> ELSE <<>>)
                 \o (IF mode = "remove" /\ \E k \in 1..Len(c.prompt) : c.prompt[k].role = "system"
                     THEN <<Warning("other", "system messages are removed for this model")>> ELSE <<>>)
        converted == convertToOllamaChatMessagesV1(c.prompt, mode)
        baseArgs ==
            [logit_bias |-> c.logitBias,
             logprobs |-> IF (c.logprobs.type = "boolean" /\ c.logprobs.value = 1)
                             \/ c.logprobs.type = "number" THEN 1 ELSE NoCount,
             top_logprobs |-> IF c.logprobs.type = "number" THEN c.logprobs.value
                              ELSE IF c.logprobs.type = "boolean" /\ c.logprobs.value = 1 THEN 0
                              ELSE NoCount,
             max_tokens |-> c.maxTokens,
             temperature |-> c.temperature,
             top_p |-> c.topP,
             frequency_penalty |-> c.frequencyPenalty,
             presence_penalty |-> c.presencePenalty,
             seed |-> c.seed,
             max_completion_tokens |-> NoCount]
        over == IF isReasoningModel(c.modelId) THEN overrideReasoning(baseArgs)
                ELSE [args |-> baseArgs, warnings |-> <<>>]
    IN  IF converted.thrown # None
        THEN [returned |-> TRUE, thrown |-> converted.thrown, args |-> <<>>,
              messages |-> <<>>, warnings |-> <<>>]
        ELSE [returned |-> TRUE, thrown |-> None, args |-> over.args,
              messages |-> converted.messages, warnings |-> early \o over.warnings]

\* OllamaRequestBuilder.collectUnsupportedSettingsWarnings
collectUnsupportedSettingsWarnings(c) ==
    LET unsupportedSettings ==
            <<[value |-> c.topK, name |-> "topK"],
              [value |-> c.seed, name |-> "seed"],
              [value |-> c.presencePenalty, name |-> "presencePenalty"],
              [value |-> c.frequencyPenalty, name |-> "frequencyPenalty"],
              [value |-> c.stopSequences, name |-> "stopSequences"]>>
        set == SelectSeq(unsupportedSettings, LAMBDA u : u.value # NoCount)
    IN  [k \in 1..Len(set) |-> Warning("unsupported-setting", set[k].name)]

\* OllamaRequestBuilder.buildRequest of a call without tools; the message
\* warnings of convertToOllamaResponsesMessages arise from tool-result parts
\* of assistant turns only, which the prompts drawn here do not hold
buildRequest(c) ==
    LET warnings == collectUnsupportedSettingsWarnings(c)
        converted == convertToOllamaChatMessages(c.prompt, "system")
    IN  IF converted.thrown # None
        THEN [returned |-> TRUE, thrown |-> converted.thrown, args |-> <<>>,
              messages |-> <<>>, warnings |-> <<>>]
        ELSE [returned |-> TRUE, thrown |-> None,
              args |-> [temperature |-> c.temperature, top_p |-> c.topP,
                        max_output_tokens |-> c.maxTokens],
              messages |-> converted.messages, warnings |-> warnings]

\* getResponsesModelConfig(modelId).systemMessageMode; the ids beginning with
\* "o" are those whose first segment is o1, o1-, o3 or o3-
getResponsesModelConfig(modelId) ==
    IF modelId[1] \in {"o1", "o1-", "o3", "o3-"}
    THEN IF modelId[1] = "o1-" /\ modelId[2] \in {"mini", "preview"}
         THEN [isReasoningModel |-> TRUE, systemMessageMode |-> "remove"]
         ELSE [isReasoningModel |-> TRUE, systemMessageMode |-> "developer"]
    ELSE [isReasoningModel |-> FALSE, systemMessageMode |-> "system"]

\* OllamaResponsesLanguageModel.getArgs of a call without tools: the message
\* warnings are those of convertToOllamaResponsesMessages under the mode of
\* the model (one per system turn when the mode is remove), the messages are
\* those of convertToOllamaChatMessages under the mode system
getArgsResponses(c) ==
    LET modelConfig == getResponsesModelConfig(c.modelId)
        systems == SelectSeq(c.prompt, LAMBDA turn : turn.role = "system")
        messageWarnings ==
            IF modelConfig.systemMessageMode = "remove"
            THEN [k \in 1..Len(systems) |->
                    Warning("other", "system messages are removed for this model")]
            ELSE <<>>
        converted == convertToOllamaChatMessages(c.prompt, "system")
    IN  IF converted.thrown # None
        THEN [returned |-> TRUE, thrown |-> converted.thrown, args |-> <<>>,
              messages |-> <<>>, warnings |-> <<>>]
        ELSE [returned |-> TRUE, thrown |-> None,
              args |-> [temperature |-> c.temperature, top_p |-> c.topP,
                        max_output_tokens |-> c.maxTokens],
              messages |-> converted.messages,
              warnings |-> collectUnsupportedSettingsWarnings(c) \o messageWarnings]

\* a setting's values: absent, zero, another number
Given == {NoCount, 0, 1}

ArgPrompts ==
    {<<>>, <<SystemTurn("s"), Turn("user", <<TextPart("a")>>)>>,
     <<Turn("assistant", <<FilePart("image")>>)>>}

InitArgs ==
    /\ endpoint = "chat"
    /\ InitDecoder
    /\ NdIdle
    /\ CallsIdle
    /\ result = [returned |-> FALSE]
    /\ \/ \E modelId \in {<<"o1">>, <<"o1-", "mini">>, <<"o3-", "mini">>, <<"llama3">>} :
          \E ts \in [temperature : Given, topP : {NoCount, 1}, frequencyPenalty : {NoCount, 1},
                     presencePenalty : {NoCount, 0}, logitBias : {NoCount, 1},
                     topK : {NoCount, 1}, maxTokens : {NoCount, 1}] :
          \E logprobs \in {[type |-> "undefined", value |-> 0]}
                          \cup [type : {"boolean", "number"}, value : {0, 1}] :
          \E prompt \in ArgPrompts :
             fnCall = ts @@ [fn |-> "getArgs", modelId |-> modelId, logprobs |-> logprobs,
                             seed |-> NoCount, stopSequences |-> NoCount, prompt |-> prompt]
       \/ \E ts \in [topK : {NoCount, 1}, seed : {NoCount, 1}, presencePenalty : {NoCount, 0},
                     frequencyPenalty : {NoCount, 1}, stopSequences : {NoCount, 1},
                     temperature : {NoCount, 1}] :
          \E prompt \in ArgPrompts :
             fnCall = ts @@ [fn |-> "buildRequest", modelId |-> <<"llama3">>,
                             topP |-> NoCount, maxTokens |-> NoCount, prompt |-> prompt]
       \/ \E modelId \in {<<"o1">>, <<"o1-", "mini">>, <<"o1-", "preview">>, <<"llama3">>} :
          \E ts \in [topK : {NoCount, 1}, seed : {NoCount, 1}, temperature : {NoCount, 1}] :
          \E prompt \in ArgPrompts :
             fnCall = ts @@ [fn |-> "getArgsResponses", modelId |-> modelId,
                             presencePenalty |-> NoCount, frequencyPenalty |-> NoCount,
                             stopSequences |-> NoCount, topP |-> NoCount,
                             maxTokens |-> NoCount, prompt |-> prompt]

GetArgs ==
    /\ fnCall.fn = "getArgs" /\ ~result.returned
    /\ result' = getArgs(fnCall)
    /\ UNCHANGED <<decoderVars, ndVars, callVars, fnCall>>

BuildRequest ==
    /\ fnCall.fn = "buildRequest" /\ ~result.returned
    /\ result' = buildRequest(fnCall)
    /\ UNCHANGED <<decoderVars, ndVars, callVars, fnCall>>

GetArgsResponses ==
    /\ fnCall.fn = "getArgsResponses" /\ ~result.returned
    /\ result' = getArgsResponses(fnCall)
    /\ UNCHANGED <<decoderVars, ndVars, callVars, fnCall>>

NextArgs == GetArgs \/ BuildRequest \/ GetArgsResponses

SpecArgs == InitArgs /\ [][NextArgs]_vars

\* ------------------------------------------------ tool preparation
MaxTools == 2

\* a JSON schema as far as the code looks at it: null or an object with an
\* optional type and optional properties and required ("absent", "empty" or
\* "x" for some keys)
Schema(isNull, type, properties, required) ==
    [isNull |-> isNull, type |-> type, properties |-> properties, required |-> required]

\* let parameters = tool.inputSchema; if (!parameters) ... else if (...) ...
parameters(inputSchema) ==
    IF inputSchema.isNull THEN Schema(FALSE, "object", "empty", "empty")
    ELSE IF inputSchema.type = "object" /\ inputSchema.properties = "empty"
         THEN [inputSchema EXCEPT !.properties = "empty", !.required = "empty"]
    ELSE inputSchema

WireTool(name, schema, strict) ==
    [type |-> "function", name |-> name, parameters |-> schema, strict |-> strict]

NoChoice == [type |-> None, name |-> None]

\* the body the three preparers share; responses tells the two
\* prepareResponsesTools from prepareTools, which drops provider-defined
\* tools, sends tool.parameters as they are and has one shape for a named
\* choice; the type of the warning for a dropped tool is the preparer's
prepared(c, responses, warningType) ==
    LET tools == c.tools.list
        kept == SelectSeq(tools, LAMBDA tool : IF responses THEN tool.type = "function"
                                               ELSE tool.type # "provider-defined")
        dropped == SelectSeq(tools, LAMBDA tool : IF responses THEN tool.type # "function"
                                                  ELSE tool.type = "provider-defined")
    IN  [returned |-> TRUE,
         thrown |-> None,
         tools |-> [given |-> tools # <<>>,
                    list |-> [k \in 1..Len(kept) |->
                                 WireTool(kept[k].name,
                                          IF responses THEN parameters(kept[k].inputSchema)
                                          ELSE kept[k].inputSchema,
                                          c.structuredOutputs)]],
         toolChoice |-> IF tools = <<>> \/ c.toolChoice.type = None THEN NoChoice
                        ELSE IF c.toolChoice.type = "tool"
                             THEN IF responses /\ c.toolChoice.toolName = "web_search_preview"
                                  THEN [type |-> "web_search_preview", name |-> None]
                                  ELSE [type |-> "function", name |-> c.toolChoice.toolName]
                        ELSE [type |-> c.toolChoice.type, name |-> None],
         warnings |-> [k \in 1..Len(dropped) |-> Warning(warningType, dropped[k].type)]]

\* prepareResponsesTools sending an empty array for an empty tool list
prepareResponsesTools_EmptyArray(c) ==
    [prepared(c, TRUE, "unsupported") EXCEPT !.tools.given = TRUE]

\* prepareResponsesTools over LanguageModelV3CallOptions
prepareResponsesTools(c) == prepared(c, TRUE, "unsupported")

\* prepareResponsesTools over LanguageModelV2CallOptions
prepareResponsesToolsV2(c) == prepared(c, TRUE, "unsupported-tool")

\* prepareTools dropping a provider-defined tool without a warning
prepareTools_NoWarning(c) ==
    [prepared(c, FALSE, "unsupported-tool") EXCEPT !.warnings = <<>>]

\* prepareTools of the chat model: tool.parameters is sent as it is, and a
\* named choice always forces the function of that name
prepareTools(c) == prepared(c, FALSE, "unsupported-tool")

ToolInputs ==
    {[type |-> "function", name |-> "f", inputSchema |-> schema] :
        schema \in {Schema(TRUE, None, "absent", "absent"),
                    Schema(FALSE, None, "absent", "absent"),
                    Schema(FALSE, "object", "absent", "absent"),
                    Schema(FALSE, "object", "empty", "absent"),
                    Schema(FALSE, "object", "x", "x")}}
    \cup {[type |-> "function", name |-> "web_search_preview",
           inputSchema |-> Schema(FALSE, "object", "x", "x")],
          [type |-> "provider-defined", name |-> "p",
           inputSchema |-> Schema(TRUE, None, "absent", "absent")]}

RECURSIVE ToolLists(_)
\* the tool lists of exactly n tools
ToolLists(n) ==
    IF n = 0 THEN {<<>>} ELSE {Append(l, t) : l \in ToolLists(n - 1), t \in ToolInputs}

InitTools ==
    /\ endpoint = "chat"
    /\ InitDecoder
    /\ NdIdle
    /\ CallsIdle
    /\ result = [returned |-> FALSE]
    /\ \E fn \in {"prepareResponsesTools", "prepareResponsesToolsV2", "prepareTools"} :
       \E n \in 0..MaxTools : \E list \in ToolLists(n) :
       \E given \in (IF n = 0 THEN BOOLEAN ELSE {TRUE}) :
       \E structuredOutputs \in (IF fn = "prepareTools" THEN BOOLEAN ELSE {FALSE}) :
       \E toolChoice \in {[type |-> None, toolName |-> None]}
                         \cup [type : {"auto", "none", "required"}, toolName : {None}]
                         \cup [type : {"tool"}, toolName : {"f", "web_search_preview"}] :
          \* a null inputSchema is a tool of the responses preparers only
          /\ fn = "prepareTools" => \A k \in 1..n : list[k].type = "function" => ~list[k].inputSchema.isNull
          /\ fnCall = [fn |-> fn, tools |-> [given |-> given, list |-> list],
                       toolChoice |-> toolChoice, structuredOutputs |-> structuredOutputs]

PrepareResponsesTools ==
    /\ fnCall.fn = "prepareResponsesTools" /\ ~result.returned
    /\ result' = prepareResponsesTools(fnCall)
    /\ UNCHANGED <<decoderVars, ndVars, callVars, fnCall>>

PrepareResponsesToolsV2 ==
    /\ fnCall.fn = "prepareResponsesToolsV2" /\ ~result.returned
    /\ result' = prepareResponsesToolsV2(fnCall)
    /\ UNCHANGED <<decoderVars, ndVars, callVars, fnCall>>

PrepareTools ==
    /\ fnCall.fn = "prepareTools" /\ ~result.returned
    /\ result' = prepareTools(fnCall)
    /\ UNCHANGED <<decoderVars, ndVars, callVars, fnCall>>

NextTools == PrepareResponsesTools \/ PrepareResponsesToolsV2 \/ PrepareTools

SpecTools == InitTools /\ [][NextTools]_vars

\* ================================================================ claims
RECURSIVE Flatten(_)
Flatten(seqs) == IF seqs = <<>> THEN <<>> ELSE Head(seqs) \o Flatten(Tail(seqs))

\* indices of the parts of a given type (and id) emitted so far
Idx(type) == {i \in 1..Len(events) : events[i].type = type}
IdxOf(type, id) == {i \in Idx(type) : events[i].id = id}

Channels == {"text", "reasoning"}
ChannelIds == {TextId, ReasoningId}

\* the lines of a raw text that parse and validate on their own, as fragments
ValidLineFragments(text) ==
    LET lines == Split(text, TRUE)
        one(l) == LET r == safeParseJSON(l) IN IF r.success THEN <<r.value>> ELSE <<>>
    IN  Flatten([i \in 1..Len(lines) |-> one(lines[i])])

\* the fragments a ParseResult stands for
ChunkFragments(chunk) ==
    IF chunk.success
    THEN IF chunk.value.error = None THEN <<chunk.value>> ELSE <<>>
    ELSE IF chunk.error.hasText THEN ValidLineFragments(chunk.error.text)
    ELSE <<>>

\* all fragments decoded from the chunks handed to the /chat decoder
DecodedFragments == Flatten([i \in 1..Len(processed) |-> ChunkFragments(processed[i])])

\* C1: every text-delta (reasoning-delta) is emitted after the -start of its
\* channel id and before that channel's -end, also for the content of a done
\* fragment and of fragments after it.
C1_DeltaWhileStarted ==
    \A ch \in Channels : \A i \in Idx(ch \o "-delta") :
        /\ \E j \in IdxOf(ch \o "-start", events[i].id) : j < i
        /\ \A j \in IdxOf(ch \o "-end", events[i].id) : i < j

\* C2: a channel emits at most one -start, never more -end than -start and
\* never an -end before its -start, and once end of input has been handled
\* every started channel has exactly one -end with the same id.
C2_StartEndBalanced ==
    \A ch \in Channels : \A id \in ChannelIds :
        LET starts == IdxOf(ch \o "-start", id)
            ends == IdxOf(ch \o "-end", id)
        IN  /\ Cardinality(starts) <= 1
            /\ Cardinality(ends) <= Cardinality(starts)
            /\ \A e \in ends : \E b \in starts : b < e
            /\ closed => Cardinality(ends) = Cardinality(starts)

\* C2 witness: end of input reached with the text channel closed by a done
\* fragment and the reasoning channel closed by the flush handler.
C2_Witness ==
    /\ closed /\ endpoint = "chat"
    /\ state.hasTextStarted /\ state.textEnded
    /\ state.hasReasoningStarted /\ ~state.reasoningEnded
    /\ IdxOf("reasoning-end", ReasoningId) # {}

\* C3: a decode that reached end of input has emitted exactly one finish
\* part and it is the last part; before end of input none has been emitted.
C3_OneFinishLast ==
    /\ Cardinality(Idx("finish")) = IF closed THEN 1 ELSE 0
    /\ closed => events[Len(events)].type = "finish"

\* C3 witness: end of input after two done fragments and an error chunk.
C3_Witness ==
    /\ closed /\ endpoint = "chat"
    /\ Cardinality({i \in 1..Len(processed) :
                      processed[i].success /\ processed[i].value.done}) >= 2
    /\ Idx("error") # {}

\* the tool calls of the decoded fragments the decoder gets to: those before
\* the first call without a function name
RECURSIVE NamedPrefix(_)
NamedPrefix(tcs) ==
    IF tcs = <<>> \/ Head(tcs).function.name = NullName THEN <<>>
    ELSE <<Head(tcs)>> \o NamedPrefix(Tail(tcs))

ReachedToolCalls ==
    LET frags == DecodedFragments
    IN  Flatten([i \in 1..Len(frags) |-> NamedPrefix(frags[i].message.tool_calls)])

Complete(tc) == ~tc.function.arguments.isNull /\ tc.function.arguments.keys # <<>>

\* the tool-call parts emitted for calls with non-empty arguments, in order
EmittedCompleteCalls ==
    SelectSeq(events, LAMBDA e : e.type = "tool-call" /\ e.data # "{}")

\* C8: every complete tool call (name and non-empty arguments) gives the
\* four parts tool-input-start, tool-input-delta, tool-input-end, tool-call
\* next to each other, in this order, all with the same id.
C8_ToolCallBurst ==
    /\ \A i \in Idx("tool-call") :
          /\ i > 3
          /\ events[i - 3].type = "tool-input-start"
          /\ events[i - 2].type = "tool-input-delta"
          /\ events[i - 1].type = "tool-input-end"
          /\ \A k \in 1..3 : events[i - k].id = events[i].id
          /\ events[i - 3].toolName = events[i].toolName
          /\ events[i - 2].data = events[i].data
    /\ Cardinality(Idx("tool-input-start")) = Cardinality(Idx("tool-call"))
    /\ Cardinality(Idx("tool-input-delta")) = Cardinality(Idx("tool-call"))
    /\ Cardinality(Idx("tool-input-end")) = Cardinality(Idx("tool-call"))
    /\ LET want == SelectSeq(ReachedToolCalls, Complete)
           got == EmittedCompleteCalls
       IN  /\ Len(got) = Len(want)
           /\ \A k \in 1..Len(want) :
                 /\ got[k].toolName = want[k].function.name
                 /\ want[k].id # None => got[k].id = want[k].id

\* C8 witness: a fragment with a complete tool call has been decoded and its
\* burst emitted under a generated id.
C8_Witness ==
    \E i \in Idx("tool-call") : events[i].id = GenId(1) /\ events[i].data = "{x}"

HasNullName(chunk) ==
    /\ chunk.success /\ chunk.value.error = None
    /\ \E k \in 1..Len(chunk.value.message.tool_calls) :
          chunk.value.message.tool_calls[k].function.name = NullName

\* C9: a fragment with a tool call whose function name is null makes the
\* transform throw InvalidResponseDataError while it processes that fragment,
\* and no tool part is emitted for that call or any call after it.
C9_NullNameThrows ==
    /\ thrown \in {None, "InvalidResponseDataError"}
    /\ thrown # None <=> (processed # <<>> /\ HasNullName(processed[Len(processed)]))
    /\ \A i \in 1..Len(processed) : HasNullName(processed[i]) => i = Len(processed)
    /\ \A i \in 1..Len(events) : events[i].toolName # NullName
    /\ Cardinality(Idx("tool-input-start"))
          = Len(SelectSeq(ReachedToolCalls, LAMBDA tc : ~tc.function.arguments.isNull))

\* C9 witness: the transform has thrown on a fragment whose first tool call
\* was complete and whose second had no name.
C9_Witness ==
    /\ thrown = "InvalidResponseDataError"
    /\ Idx("tool-call") # {}
    /\ Len(processed[Len(processed)].value.message.tool_calls) = 2

\* parts that may precede response-metadata
Preamble == {"stream-start", "raw", "error"}

FragmentCount ==
    IF endpoint = "chat" THEN Len(DecodedFragments)
    ELSE Len(SelectSeq(cprocessed, LAMBDA v : v.error = None))

\* C10: response-metadata is emitted exactly once if some fragment has been
\* decoded (directly or by line recovery) and not at all otherwise, and it
\* precedes every text, reasoning and tool part.
C10_MetadataOnceFirst ==
    /\ Cardinality(Idx("response-metadata")) = IF FragmentCount > 0 THEN 1 ELSE 0
    /\ \A i \in Idx("response-metadata") : \A j \in 1..(i - 1) : events[j].type \in Preamble

\* C10 witness: the first chunk failed as a whole, line recovery decoded two
\* fragments from it, and a later fragment was processed as well.
C10_Witness ==
    /\ Len(processed) >= 2
    /\ ~processed[1].success /\ Len(ChunkFragments(processed[1])) = 2
    /\ processed[2].success /\ processed[2].value.error = None
    /\ Cardinality(Idx("response-metadata")) = 1
    /\ Cardinality(Idx("text-delta")) >= 3

\* the payloads of the text-delta parts emitted so far, in order
TextDeltaData ==
    LET ds == SelectSeq(events, LAMBDA e : e.type = "text-delta")
    IN  [i \in 1..Len(ds) |-> ds[i].data]

\* C5: every line of a failed chunk's raw text that parses and validates on
\* its own is processed as a fragment, in line order, whatever malformed
\* lines stand before or after it: the text-delta payloads are the contents
\* of the decoded fragments and valid lines, in arrival order.
C5_ValidLinesProcessed ==
    LET frags == DecodedFragments
    IN  TextDeltaData = [i \in 1..Len(frags) |-> frags[i].message.content]

\* C5 witness: two failed chunks have been processed, one with a malformed
\* line before a valid line and one with a malformed line after it, and both
\* valid lines gave their text-delta.
C5_Witness ==
    /\ Len(processed) = 2
    /\ processed[1].error.text = <<"{", "a", NL, "{", "a", "}">>
    /\ processed[2].error.text = <<"{", "a", "}", NL, "{", "a">>
    /\ TextDeltaData = <<"a", "a">>

\* a chunk that failed only as JSON syntax: a truncated or split object
IsFramingArtifact(chunk) == ~chunk.success /\ chunk.error.name = "JSONParseError"
\* a chunk that is well-formed JSON but no response object: an error envelope
IsUpstreamError(chunk) == ~chunk.success /\ chunk.error.name = "TypeValidationError"

UpstreamErrors == {i \in 1..Len(processed) : IsUpstreamError(processed[i])}

\* C6: a chunk that fails only as a framing artifact is dropped silently: an
\* error part is emitted only for chunks that carry an upstream error object,
\* and without such a chunk the finish reason never becomes error.
C6_FramingArtifactSilent ==
    /\ Cardinality(Idx("error")) = Cardinality(UpstreamErrors)
    /\ UpstreamErrors = {} => state.finishReason.unified # "error"

\* C7: a chunk that yields no fragment and carries an upstream error object
\* gives an error part and does not throw, and the stream then ends with a
\* finish part whose finish reason is error.
C7_UpstreamErrorFinish ==
    UpstreamErrors # {} =>
        /\ thrown = None
        /\ Cardinality(Idx("error")) >= Cardinality(UpstreamErrors)
        /\ closed => events[Len(events)].finishReason.unified = "error"

\* C4: once both runs have read their body to the end, the run that got one
\* object cut in two chunks has enqueued the same fragments as the run that
\* got the body uncut, and the completion decoder fed by either emits the
\* same parts.
C4_SplitEqualsWhole ==
    (nd["whole"].h.closed /\ nd["split"].h.closed) =>
        /\ nd["split"].h.out = nd["whole"].h.out
        /\ completionEvents(nd["split"].h.out) = completionEvents(nd["whole"].h.out)

\* C4 witness: both runs are at the end of a body of two valid objects, cut
\* between the two bytes of a character of the first.
C4_Witness ==
    /\ nd["whole"].h.closed /\ nd["split"].h.closed
    /\ wire.body[wire.cut] = Lead
    /\ Len(nd["split"].h.out) = 2

\* a channel is in the started state: its -start was emitted, its -end not
ChannelOpen(ch, id) ==
    Cardinality(IdxOf(ch \o "-start", id)) > Cardinality(IdxOf(ch \o "-end", id))

\* C11: a done fragment processed while channels are started closes each of
\* them within that transform, once, text-end before reasoning-end; channels
\* that are not started get no -end.
C11_DoneClosesChannels ==
    [][(/\ Len(processed') = Len(processed) + 1
        /\ processed'[Len(processed')].success
        /\ processed'[Len(processed')].value.error = None
        /\ processed'[Len(processed')].value.done)
       => LET new == SubSeq(events', Len(events) + 1, Len(events'))
              ends == SelectSeq(new, LAMBDA e : e.type \in {"text-end", "reasoning-end"})
              want == (IF ChannelOpen("text", TextId) THEN <<"text-end">> ELSE <<>>)
                      \o (IF ChannelOpen("reasoning", ReasoningId)
                          THEN <<"reasoning-end">> ELSE <<>>)
          IN  [i \in 1..Len(ends) |-> ends[i].type] = want]_vars

\* C11 witness: a done fragment found both channels started and closed them,
\* before end of input.
C11_Witness ==
    /\ ~closed /\ endpoint = "chat"
    /\ \E i \in Idx("text-end") :
          i < Len(events) /\ events[i + 1].type = "reasoning-end"

\* a string field carries a delta under rule r
Carries(r, x) == IF r = "non-null" THEN x # None ELSE x # None /\ x # ""

\* C12: text-start (reasoning-start) comes right before the first text-delta
\* (reasoning-delta) and nowhere else, and one rule decides for both channels
\* whether a fragment carries a delta: an empty content and an empty thinking
\* are treated alike.
C12_LazyStartSameRule ==
    /\ \A ch \in Channels : \A i \in Idx(ch \o "-start") :
          /\ i < Len(events) /\ events[i + 1].type = ch \o "-delta"
          /\ \A j \in Idx(ch \o "-delta") : i < j
    /\ endpoint = "chat" =>
       LET frags == DecodedFragments
       IN  \E r \in {"non-null", "non-empty"} :
              /\ Cardinality(Idx("text-delta"))
                    = Cardinality({i \in 1..Len(frags) : Carries(r, frags[i].message.content)})
              /\ Cardinality(Idx("reasoning-delta"))
                    = Cardinality({i \in 1..Len(frags) : Carries(r, frags[i].message.thinking)})

RECURSIVE ConcatAll(_)
\* the concatenation of a sequence of strings, absent ones counting as empty
ConcatAll(strs) ==
    IF strs = <<>> THEN ""
    ELSE (IF Head(strs) = None THEN "" ELSE Head(strs)) \o ConcatAll(Tail(strs))

DeltaText(type) ==
    LET ds == SelectSeq(events, LAMBDA e : e.type = type)
    IN  ConcatAll([i \in 1..Len(ds) |-> ds[i].data])

\* C13: the text-delta payloads, concatenated in emission order, are the
\* message.content of the decoded fragments concatenated in arrival order,
\* and the reasoning-delta payloads are their message.thinking, also for
\* fragments obtained by line recovery.
C13_ContentPreserved ==
    endpoint = "chat" =>
        LET frags == DecodedFragments
        IN  /\ DeltaText("text-delta")
                 = ConcatAll([i \in 1..Len(frags) |-> frags[i].message.content])
            /\ DeltaText("reasoning-delta")
                 = ConcatAll([i \in 1..Len(frags) |-> frags[i].message.thinking])

\* C13 witness: content was decoded from a recovered chunk and from a
\* fragment after a done fragment, together with reasoning.
C13_Witness ==
    /\ endpoint = "chat"
    /\ \E i \in 1..Len(processed) :
          ~processed[i].success /\ Len(ChunkFragments(processed[i])) = 2
    /\ state.textEnded
    /\ DeltaText("text-delta") = "aa"
    /\ DeltaText("reasoning-delta") = "t"

RECURSIVE aloneLoop(_, _, _, _)
\* a decoder of its own run over the chunks of one call, the id generator
\* giving it the ids that call was given
aloneLoop(ctx, chunks, gens, i) ==
    IF i > Len(chunks) THEN ctx
    ELSE aloneLoop(processChunk([ctx EXCEPT !.gen = gens[i]], chunks[i], options),
                   chunks, gens, i + 1)

\* the parts and the error of a call that ran with no other call
Alone(s) ==
    LET c == aloneLoop(Ctx(initializeState, <<Ev("stream-start", None, None, None)>>, None, 0),
                       s.processed, s.gens, 1)
    IN  [out |-> IF s.closed THEN finalizeStream(c).out ELSE c.out, thrown |-> c.thrown]

\* C14: with two doStream calls on one model whose chunks are processed in
\* any interleaving, the parts (and the thrown error) of each call are those
\* of a decoder that ran alone over that call's chunks
C14_CallsIndependent ==
    \A call \in DOMAIN streams :
        LET s == streams[call]
            a == Alone(s)
        IN  s.called => s.out = a.out /\ s.thrown = a.thrown

\* call 1 generated an id, then call 2 did, then call 1 went on; both ended
C14_Witness ==
    /\ DOMAIN streams = Calls
    /\ streams[1].gens = <<0, 2>> /\ streams[2].gens = <<1, 2>>
    /\ streams[1].closed /\ streams[2].closed
    /\ \E i \in 1..Len(streams[2].out) : streams[2].out[i].type = "text-start"

\* the bytes a run of the NDJSON handler has been delivered so far
Delivered(r) ==
    LET left == Len(Flatten(nd[r].chunks))
    IN  SubSeq(wire.body, 1, Len(wire.body) - left)

\* what follows the last newline of a text (all of it if there is none)
AfterLastNewline(text) ==
    LET nls == {i \in 1..Len(text) : text[i] = NL}
    IN  IF nls = {} THEN text
        ELSE SubSeq(text, (CHOOSE i \in nls : \A j \in nls : j <= i) + 1, Len(text))

\* C15: after any delivered chunk the buffer the NDJSON handler retains is
\* the decoded text that follows the last newline received so far: it holds
\* no newline and nothing of a line that was already emitted
C15_BufferIsResidualTail ==
    \A r \in DOMAIN nd :
        LET buffer == nd[r].h.buffer
        IN  /\ \A i \in 1..Len(buffer) : buffer[i] # NL
            /\ buffer = AfterLastNewline(decode(<<>>, Delivered(r)).chars)

\* the split run emitted a line from its first chunk and retains the start
\* of the next line
C15_Witness ==
    /\ DOMAIN nd = Runs
    /\ Len(nd["split"].chunks) = 1
    /\ nd["split"].h.out # <<>>
    /\ nd["split"].h.buffer # <<>>

\* C16: the usage of a non-streaming result, and of the finish part of a
\* stream whose done fragment carried the counters, has inputTokens =
\* prompt_eval_count, outputTokens = eval_count and, the counters being
\* there, totalTokens = inputTokens + outputTokens
C16_UsageFromCounters ==
    result.returned =>
        LET pe == fnCall.response.prompt_eval_count
            ec == fnCall.response.eval_count
            carried == pe # NoCount /\ ec # NoCount
        IN  /\ (fnCall.fn # "doStream" \/ carried) =>
                  /\ result.usage.inputTokens = pe
                  /\ result.usage.outputTokens = ec
            /\ carried => result.usage.totalTokens = pe + ec

\* the last done fragment the completion stream was handed
LastDone ==
    LET is == {i \in 1..Len(cprocessed) : cprocessed[i].error = None /\ cprocessed[i].done}
    IN  cprocessed[CHOOSE i \in is : \A j \in is : j <= i]

\* C17: in the completion stream a done fragment's reason is mapped to the
\* finish reason and its counters are captured, so that the finish part
\* carries the usage of that fragment
C17_CompletionFinishUsage ==
    (/\ endpoint = "generate" /\ closed
     /\ \E i \in 1..Len(cprocessed) : cprocessed[i].error = None /\ cprocessed[i].done
     /\ \A i \in 1..Len(cprocessed) : cprocessed[i].error = None)
    => LET finish == events[Len(events)]
       IN  /\ finish.finishReason.unified = "stop"
           /\ finish.usage.inputTokens = LastDone.prompt_eval_count
           /\ finish.usage.outputTokens = LastDone.eval_count

\* the user turns of the prompt whose content is exactly one text part
SingleTextTurns ==
    {i \in 1..Len(fnCall.prompt) :
        /\ fnCall.prompt[i].role = "user"
        /\ Len(fnCall.prompt[i].content) = 1
        /\ fnCall.prompt[i].content[1].type = "text"}

\* C19: a user turn whose content is exactly one text part is converted to
\* one wire user message whose content is that text as a plain string, for
\* every text (the empty one too) and at every position
C19_SingleTextIsString ==
    (result.returned /\ result.thrown = None) =>
        \A i \in SingleTextTurns :
            LET ms == SelectSeq(result.messages, LAMBDA m : m.turn = i)
            IN  /\ Len(ms) = 1
                /\ ms[1].role = "user"
                /\ ms[1].content = Str(fnCall.prompt[i].content[1].text)

\* an empty single text part in second position was converted
C19_Witness ==
    /\ result.returned /\ result.thrown = None
    /\ 2 \in SingleTextTurns
    /\ fnCall.prompt[2].content[1].text = ""
    /\ fnCall.prompt[1].role = "tool"
    /\ Len(result.messages) = 3

\* the wire role of the messages of a prompt turn
WireRole(turn) ==
    IF turn.role = "system" THEN fnCall.systemMessageMode ELSE turn.role

\* the wire messages are in the order of their turns and carry their turn's
\* role, system turns being retagged or dropped by the mode alone
OrderAndRoles ==
    LET ms == result.messages
        prompt == fnCall.prompt
    IN  /\ \A a, b \in 1..Len(ms) : a < b => ms[a].turn <= ms[b].turn
        /\ \A a \in 1..Len(ms) : ms[a].role = WireRole(prompt[ms[a].turn])
        /\ \A i \in 1..Len(prompt) :
              prompt[i].role = "system" =>
                 Cardinality({a \in 1..Len(ms) : ms[a].turn = i})
                    = IF fnCall.systemMessageMode = "remove" THEN 0 ELSE 1

\* the number of wire messages pushed for turn i
Pushed(i) == Cardinality({a \in 1..Len(result.messages) : result.messages[a].turn = i})

\* C20 as stated: the wire messages keep the order of the turns, only system
\* turns are retagged or dropped, and no user, assistant or tool turn is
\* reordered, retagged or dropped
C20_NoTurnDropped ==
    (result.returned /\ result.thrown = None) =>
        /\ OrderAndRoles
        /\ \A i \in 1..Len(fnCall.prompt) :
              fnCall.prompt[i].role # "system" => Pushed(i) >= 1

\* C20 amended: the wire messages keep the order of the turns, only system
\* turns are retagged or dropped by the mode, every user and assistant turn
\* yields exactly one message and every tool turn one message per tool
\* result, in the order of the results (so none when it holds no result)
C20_OrderPreserved ==
    (result.returned /\ result.thrown = None) =>
        /\ OrderAndRoles
        /\ \A i \in 1..Len(fnCall.prompt) :
              LET turn == fnCall.prompt[i]
                  ms == SelectSeq(result.messages, LAMBDA m : m.turn = i)
              IN  /\ turn.role \in {"user", "assistant"} => Len(ms) = 1
                  /\ turn.role = "tool" =>
                        /\ Len(ms) = Len(turn.content)
                        /\ \A k \in 1..Len(ms) : ms[k].tool_call_id = turn.content[k].id

\* a system turn after a two-result tool turn, retagged as developer
C20_Witness ==
    /\ result.returned /\ result.thrown = None
    /\ fnCall.systemMessageMode = "developer"
    /\ Len(fnCall.prompt) = 2
    /\ fnCall.prompt[1].role = "tool" /\ Len(fnCall.prompt[1].content) = 2
    /\ fnCall.prompt[2].role = "system"
    /\ Len(result.messages) = 3 /\ result.messages[3].role = "developer"

\* the value the caller supplied for a wire field of the chat request body
SuppliedFor(field) ==
    CASE field = "temperature" -> fnCall.temperature
      [] field = "top_p" -> fnCall.topP
      [] field = "frequency_penalty" -> fnCall.frequencyPenalty
      [] field = "presence_penalty" -> fnCall.presencePenalty
      [] field = "logit_bias" -> fnCall.logitBias
      [] field = "logprobs" ->
            IF fnCall.logprobs.type = "number" \/ fnCall.logprobs = [type |-> "boolean", value |-> 1]
            THEN 1 ELSE NoCount
      [] field = "top_logprobs" ->
            IF fnCall.logprobs.type = "number" THEN fnCall.logprobs.value
            ELSE IF fnCall.logprobs = [type |-> "boolean", value |-> 1] THEN 0 ELSE NoCount

\* how many warnings name a setting
Warned(setting) ==
    Cardinality({k \in 1..Len(result.warnings) : result.warnings[k].setting = setting})

\* C18: request building throws only what the prompt conversion throws,
\* whatever settings are supplied; for a reasoning model id every one of the
\* seven unsupported fields is cleared from the body and warned about once
\* if it was supplied and not at all otherwise; the responses request
\* builder sends none of its five unsupported settings and warns once about
\* each supplied one and about no other
C18_UnsupportedSettingsWarned ==
    result.returned =>
        IF fnCall.fn = "getArgs"
        THEN /\ result.thrown
                  = convertToOllamaChatMessagesV1(fnCall.prompt,
                                                  getSystemMessageMode(fnCall.modelId)).thrown
             /\ result.thrown = None =>
                  \A k \in 1..Len(ReasoningOverrides) :
                      LET o == ReasoningOverrides[k]
                      IN  IF fnCall.modelId[1] \in {"o1", "o1-", "o3", "o3-"}
                          THEN /\ result.args[o.field] = NoCount
                               /\ Warned(o.warning.setting)
                                     = IF SuppliedFor(o.field) # NoCount THEN 1 ELSE 0
                          ELSE /\ result.args[o.field] = SuppliedFor(o.field)
                               /\ Warned(o.warning.setting) = 0
        ELSE /\ result.thrown = convertToOllamaChatMessages(fnCall.prompt, "system").thrown
             /\ result.thrown = None =>
                  /\ DOMAIN result.args
                        \cap {"top_k", "seed", "presence_penalty", "frequency_penalty", "stop"} = {}
                  /\ \A name \in {"topK", "seed", "presencePenalty", "frequencyPenalty",
                                  "stopSequences"} :
                        Warned(name) = IF fnCall[name] # NoCount THEN 1 ELSE 0
                  /\ Cardinality({k \in 1..Len(result.warnings) :
                                      result.warnings[k].type = "unsupported-setting"})
                        = Cardinality({name \in {"topK", "seed", "presencePenalty",
                                                 "frequencyPenalty", "stopSequences"} :
                                          fnCall[name] # NoCount})

\* a reasoning model id given a zero temperature and logprobs: true, which
\* puts top_logprobs 0 in the body: three fields cleared, three warnings
C18_Witness ==
    /\ result.returned /\ result.thrown = None
    /\ fnCall.fn = "getArgs" /\ fnCall.modelId = <<"o3-", "mini">>
    /\ fnCall.temperature = 0 /\ fnCall.logprobs = [type |-> "boolean", value |-> 1]
    /\ fnCall.topP = NoCount /\ fnCall.frequencyPenalty = NoCount
    /\ fnCall.presencePenalty = NoCount /\ fnCall.logitBias = NoCount
    /\ fnCall.topK = NoCount
    /\ Len(result.warnings) = 3

\* the user turns of several parts that hold a file part whose media type
\* (a zip archive) neither converter has a wire shape for
UnsupportedFileTurns ==
    {i \in 1..Len(fnCall.prompt) :
        /\ fnCall.prompt[i].role = "user"
        /\ Len(fnCall.prompt[i].content) > 1
        /\ \E k \in 1..Len(fnCall.prompt[i].content) :
              /\ fnCall.prompt[i].content[k].type = "file"
              /\ fnCall.prompt[i].content[k].media \notin {"image", "audio", "pdf"}}

\* C21: converting a user turn of several parts one of which is a file part
\* of an unsupported media type fails with an error and yields no wire
\* message for that turn
C21_UnsupportedMediaFails ==
    (result.returned /\ UnsupportedFileTurns # {}) =>
        /\ result.thrown # None
        /\ \A k \in 1..Len(result.messages) : result.messages[k].turn \notin UnsupportedFileTurns

\* C22: preparing an empty or absent tool list returns the wire tools as
\* absent, not as an empty array, with no warning, whatever the tool choice
C22_EmptyToolsAbsent ==
    (result.returned /\ fnCall.tools.list = <<>>) =>
        /\ ~result.tools.given
        /\ result.tools.list = <<>>
        /\ result.warnings = <<>>

\* an empty array was supplied together with the tool choice required
C22_Witness ==
    /\ result.returned
    /\ fnCall.tools = [given |-> TRUE, list |-> <<>>]
    /\ fnCall.toolChoice.type = "required"
    /\ fnCall.fn = "prepareResponsesTools"

\* C23: the wire tools are the function tools of the input, one entry each,
\* in input order and under the same name; every other tool is dropped with
\* exactly one warning about an unsupported tool; nothing is thrown, and
\* wire tools + warnings = input tools
C23_ToolsOneToOne ==
    result.returned =>
        LET input == fnCall.tools.list
            functions == SelectSeq(input, LAMBDA tool : tool.type = "function")
            others == SelectSeq(input, LAMBDA tool : tool.type # "function")
        IN  /\ result.thrown = None
            /\ Len(result.tools.list) = Len(functions)
            /\ \A k \in 1..Len(functions) :
                  /\ result.tools.list[k].type = "function"
                  /\ result.tools.list[k].name = functions[k].name
            /\ Len(result.warnings) = Len(others)
            /\ \A k \in 1..Len(others) :
                  /\ result.warnings[k].type \in {"unsupported", "unsupported-tool"}
                  /\ result.warnings[k].setting = others[k].type
            /\ Len(result.tools.list) + Len(result.warnings) = Len(input)

\* a provider-defined tool ahead of a function tool: one warning, one wire
\* tool
C23_Witness ==
    /\ result.returned
    /\ fnCall.fn = "prepareTools"
    /\ Len(fnCall.tools.list) = 2
    /\ fnCall.tools.list[1].type = "provider-defined"
    /\ fnCall.tools.list[2].type = "function"
    /\ Len(result.warnings) = 1 /\ Len(result.tools.list) = 1

\* C24: with tools to send, the tool choices auto, none and required reach
\* the wire unchanged, and the choice of the tool named x becomes the wire
\* shape forcing the function named x, for every x
C24_ToolChoiceMapped ==
    (result.returned /\ fnCall.tools.list # <<>>) =>
        /\ fnCall.toolChoice.type \in {"auto", "none", "required"} =>
              result.toolChoice = [type |-> fnCall.toolChoice.type, name |-> None]
        /\ fnCall.toolChoice.type = "tool" =>
              result.toolChoice = [type |-> "function", name |-> fnCall.toolChoice.toolName]

\* an input schema without properties, whether or not it spells out its
\* type or an empty properties object
IsEmptyObjectSchema(schema) ==
    ~schema.isNull /\ schema.properties \in {"absent", "empty"}

\* C25: the parameters of every wire function tool are a non-null object,
\* and every empty-object input schema is sent as
\* {type: object, properties: {}, required: []}
C25_ParametersNormalized ==
    result.returned =>
        LET functions == SelectSeq(fnCall.tools.list, LAMBDA tool : tool.type = "function")
        IN  \A k \in 1..Len(result.tools.list) :
               /\ ~result.tools.list[k].parameters.isNull
               /\ IsEmptyObjectSchema(functions[k].inputSchema) =>
                     result.tools.list[k].parameters = Schema(FALSE, "object", "empty", "empty")

\* C28: tool preparation never returns an empty wire tool array: with no
\* function tool left to send the wire tools are absent
C28_NoEmptyToolArray ==
    result.returned => ~(result.tools.given /\ result.tools.list = <<>>)

\* the tool-call blocks of a non-streaming result
ToolCallBlocks == SelectSeq(result.content, LAMBDA part : part.type = "tool-call")

\* C26: with config.generateId configured, the tool-call blocks of a
\* non-streaming result follow the wire order; each keeps the wire id when
\* the wire has one and otherwise takes an id from config.generateId; an
\* empty text produces no text block
C26_ToolCallIds ==
    (/\ result.returned
     /\ fnCall.fn \in {"processGenerateResponse", "doGenerate"}
     /\ fnCall.config.generateId) =>
        LET tcs == fnCall.response.message.tool_calls
        IN  /\ Len(ToolCallBlocks) = Len(tcs)
            /\ \A i \in 1..Len(tcs) :
                  /\ ToolCallBlocks[i].toolName = tcs[i].function.name
                  /\ IF tcs[i].id # None THEN ToolCallBlocks[i].toolCallId = tcs[i].id
                     ELSE \E n \in 1..Len(tcs) : ToolCallBlocks[i].toolCallId = GenId(n)
            /\ fnCall.response.message.content = "" =>
                  \A i \in 1..Len(result.content) : result.content[i].type # "text"

\* C27: once the chat decoder has emitted an error part, the finish part of
\* the ended stream has the finish reason error, whatever was processed
\* after the error, a done fragment included
C27_ErrorFinishSticky ==
    (endpoint = "chat" /\ closed /\ Idx("error") # {}) =>
        events[Len(events)].finishReason.unified = "error"

\* C29: the warnings of a built request contain 'system messages are removed
\* for this model' exactly when the prompt has a system turn and the wire
\* messages of the same request hold no message derived from it
C29_RemovedWarningMatchesMessages ==
    (result.returned /\ result.thrown = None) =>
        LET systems == {k \in 1..Len(fnCall.prompt) : fnCall.prompt[k].role = "system"}
            warned == \E k \in 1..Len(result.warnings) :
                         result.warnings[k] =
                             Warning("other", "system messages are removed for this model")
            removed == \E k \in systems :
                          \A i \in 1..Len(result.messages) : result.messages[i].turn # k
        IN  warned <=> removed

\* C30: the handler reads the body only on demand: with no fragment taken
\* by the consumer, reader.read() is called only while nothing is queued, so
\* a pull that has enqueued a fragment takes no further chunk off the body
C30_ReadsOnDemand ==
    [][\A r \in Runs : nd'[r].chunks # nd[r].chunks => nd[r].h.out = <<>>]_vars

====
